---- MODULE Spec2Model ----
(***************************************************************************)
(* Supervisor control loop of openclaw-dev (scripts/supervisor_loop.py).   *)
(*                                                                         *)
(* The persisted documents (STATUS.json, TRIGGER.json, BLUEPRINT.json, the *)
(* nightly log, the checkpoint directory) are the state; loop() is cut at  *)
(* its blocking subprocess calls (agent, fallback agent, verification,     *)
(* autopr, sleep), one action per stretch of code between two calls.  The  *)
(* results of the subprocesses are the nondeterministic inputs.            *)
(*                                                                         *)
(* Strings that the code only stores or compares are TLA+ strings;         *)
(* identifiers that the code normalises are sequences of characters.       *)
(* Timestamps (last_update, the record's timestamp) and the text of        *)
(* TASK.md and RESULT.md are not part of the modelled state.               *)
(***************************************************************************)
EXTENDS Integers, Sequences, FiniteSets, TLC

\* ------------------------------------------------------------------ bounds
MaxIters == 3
MaxAttemptsCfg == 2
MaxRetriesCfg == 1
MaxRewrites == 1
MaxRequests == 1
MaxTextLen == 5
MaxChars == 4
MaxCalls == 3
MaxHistory == 4
MaxPingPong == 2
MaxLines == 3

\* --------------------------------------------------- identifiers (strings)
NoStr == <<"<nostr>">>
DEFAULT_ID == <<"d", "e", "f">>
MAIN_ID == <<"m", "a", "i", "n">>
RAW_PROJECT == <<" ", "P", " ", "/", "a", " ">>
NORM_PROJECT == <<"p", "-", "a">>
OTHER_PROJECT == <<"p", "b">>

lower(c) == CASE c = "P" -> "p" [] c = "A" -> "a" [] OTHER -> c

RECURSIVE lstrip(_)
lstrip(s) == IF s # <<>> /\ Head(s) = " " THEN lstrip(Tail(s)) ELSE s

RECURSIVE rstrip(_)
rstrip(s) == IF s # <<>> /\ s[Len(s)] = " " THEN rstrip(SubSeq(s, 1, Len(s) - 1)) ELSE s

strip(s) == rstrip(lstrip(s))

RECURSIVE re_sub_dash(_, _)
re_sub_dash(s, inRun) ==
    IF s = <<>> THEN <<>>
    ELSE IF Head(s) \in {"a", "b", "d", "e", "f", "i", "l", "m", "n", "p", "t", ".", "_", "-"}
    THEN <<Head(s)>> \o re_sub_dash(Tail(s), FALSE)
    ELSE IF inRun THEN re_sub_dash(Tail(s), TRUE)
    ELSE <<"-">> \o re_sub_dash(Tail(s), TRUE)

_normalize_identifier(value, fallback) ==
    IF value = NoStr THEN fallback
    ELSE LET cleaned == [i \in 1..Len(strip(value)) |-> lower(strip(value)[i])]
         IN  IF cleaned = <<>> THEN fallback ELSE re_sub_dash(cleaned, FALSE)

\* str(status.get(key, default)) for a key that is missing or holds a string
str_or(value, default) == IF value = NoStr THEN default ELSE value

\* ------------------------------------------------------------ STATUS.json
\* A missing key is "" (strings), 0 (numbers), FALSE (booleans), NoStr (ids).
EmptyStatus ==
    [state |-> "", current_step |-> 0, checkpoint_id |-> <<>>, last_cmd |-> "",
     last_test_ok |-> FALSE, last_test_attempts |-> 0, needs_human |-> FALSE,
     human_question |-> "", last_error_sig |-> "", last_action |-> "",
     tenant_id |-> NoStr, agent_id |-> NoStr, project_id |-> NoStr]

AbsentFile == [kind |-> "absent", doc |-> EmptyStatus]

load_status(file) == IF file.kind = "dict" THEN file.doc ELSE EmptyStatus

save_status(status) == [kind |-> "dict", doc |-> status]

\* --------------------------------------------------------- BLUEPRINT.json
Step(id, name, words, requires_test, checkpoint) ==
    [isdict |-> TRUE, id |-> id, name |-> name, words |-> words,
     requires_test |-> requires_test, checkpoint |-> checkpoint]

NoStep == [isdict |-> FALSE, id |-> -1, name |-> "", words |-> {},
           requires_test |-> "unset", checkpoint |-> FALSE]

load_blueprint(file) ==
    IF file.kind = "absent"
    THEN << Step(1, "spec", {"write", "plan"}, "unset", TRUE),
            Step(2, "implement", {"implement", "changes"}, "unset", TRUE),
            Step(3, "verify", {"run", "tests"}, "unset", FALSE),
            Step(4, "finalize", {"write", "result"}, "unset", FALSE) >>
    ELSE IF file.kind = "invalid" THEN <<>>
    ELSE file.steps

RECURSIVE get_step_from(_, _, _)
get_step_from(steps, i, current_step) ==
    IF i > Len(steps) THEN NoStep
    ELSE IF ~steps[i].isdict THEN get_step_from(steps, i + 1, current_step)
    ELSE IF steps[i].id = current_step THEN steps[i]
    ELSE get_step_from(steps, i + 1, current_step)

get_step_clamped(steps, current_step) ==
    IF get_step_from(steps, 1, current_step) = NoStep /\ steps # <<>> /\ steps[Len(steps)].isdict
    THEN steps[Len(steps)]
    ELSE get_step_from(steps, 1, current_step)

get_step_after_first(steps, current_step) == get_step_from(steps, 2, current_step)

get_step(steps, current_step) == get_step_from(steps, 1, current_step)

step_requires_test_default_true(step) ==
    IF step = NoStep THEN TRUE
    ELSE IF step.requires_test = "true" THEN TRUE
    ELSE IF step.requires_test = "false" THEN FALSE
    ELSE TRUE

step_requires_test(step) ==
    IF step = NoStep THEN TRUE
    ELSE IF step.requires_test = "true" THEN TRUE
    ELSE IF step.requires_test = "false" THEN FALSE
    ELSE step.name \in {"verify", "finalize"}

step_allows_checkpoint(step) ==
    IF step = NoStep THEN FALSE ELSE step.checkpoint

is_host_sync_step(step) ==
    IF step = NoStep THEN FALSE
    ELSE ("sync" \in step.words) /\ (("skill" \in step.words) \/ ("../skills" \in step.words))

sync_target_never_missing(host_sync_step, sync_target) == FALSE

\* Line 1075: sync_target is resolve_sync_target(add_dirs), the first
\* directory that is not the agent's home, or None
sync_target_missing(host_sync_step, sync_target) == host_sync_step /\ ~sync_target

\* ----------------------------------------------------------- TRIGGER.json
\* A missing fingerprint is NoStr, a missing requested_at_epoch is -1.
AbsentTrigger ==
    [kind |-> "absent", reset_step |-> "other",
     tenant_id |-> NoStr, agent_id |-> NoStr, project_id |-> NoStr,
     fingerprint |-> NoStr, requested_at_epoch |-> -1]

GarbageTrigger == [AbsentTrigger EXCEPT !.kind = "garbage"]

Trigger(reset_step, project_id) ==
    [kind |-> "dict", reset_step |-> reset_step,
     tenant_id |-> NoStr, agent_id |-> NoStr, project_id |-> project_id,
     fingerprint |-> NoStr, requested_at_epoch |-> -1]

\* The payload is the parsed document when it is a JSON object, else {}.
load_trigger_payload(file) == IF file.kind = "dict" THEN file ELSE AbsentTrigger

unlink_trigger_parsed_only(file) == IF file.kind = "dict" THEN AbsentTrigger ELSE file

\* trigger_path.unlink(), reached whenever the document exists
unlink_trigger(file) == AbsentTrigger

\* `if trigger:` -- an empty payload is not applied
payload_truthy(payload) == payload.kind = "dict"

\* ------------------------------------------------------------ run log
append_nightly_log_truncating(lg, status) == << [status |-> status] >>

\* one line written with the file opened in mode "a"
append_nightly_log(lg, status) == Append(lg, [status |-> status])

record_check_result_unless_failed(lg, parts, workspace_test_ok) ==
    IF workspace_test_ok THEN append_nightly_log(lg, parts \o <<"run_tests_ok">>) ELSE lg

\* record_check_result: the composite status is the given parts followed by
\* the tag of the workspace test entry point.
record_check_result(lg, parts, workspace_test_ok) ==
    append_nightly_log(lg,
        parts \o << IF workspace_test_ok THEN "run_tests_ok" ELSE "run_tests_failed" >>)

HasTag(record, tag) == \E i \in 1..Len(record.status) : record.status[i] = tag

\* ------------------------------------------------------- apply_trigger
apply_trigger_status_bool_only(status, payload) ==
    LET s1 == [status EXCEPT !.state = "idle", !.needs_human = FALSE,
                             !.human_question = "", !.last_error_sig = "triggered",
                             !.last_action = "triggered_run"]
        s2 == IF payload.reset_step = "true" THEN [s1 EXCEPT !.current_step = 1, !.checkpoint_id = <<>>]
              ELSE s1
    IN  [s2 EXCEPT
            !.tenant_id = _normalize_identifier(payload.tenant_id, str_or(status.tenant_id, DEFAULT_ID)),
            !.agent_id = _normalize_identifier(payload.agent_id, str_or(status.agent_id, MAIN_ID)),
            !.project_id = _normalize_identifier(payload.project_id, str_or(status.project_id, DEFAULT_ID))]

apply_trigger_status(status, payload) ==
    LET reset_step == payload.reset_step # "false"
        s1 == [status EXCEPT !.state = "idle", !.needs_human = FALSE,
                             !.human_question = "", !.last_error_sig = "triggered",
                             !.last_action = "triggered_run"]
        s2 == IF reset_step THEN [s1 EXCEPT !.current_step = 1, !.checkpoint_id = <<>>] ELSE s1
    IN  [s2 EXCEPT
            !.tenant_id = _normalize_identifier(payload.tenant_id, str_or(status.tenant_id, DEFAULT_ID)),
            !.agent_id = _normalize_identifier(payload.agent_id, str_or(status.agent_id, MAIN_ID)),
            !.project_id = _normalize_identifier(payload.project_id, str_or(status.project_id, DEFAULT_ID))]

\* ------------------------------------------------- trigger_supervisor.py
\* the name of the repository directory, and the default --reason
REPO_NAME == <<"l", "a", "b">>
REASON_MANUAL == <<"m", "a", "n">>

\* the default of --dedup-seconds
DEDUP_SECONDS == 90

read_status(file) == IF file.kind = "dict" THEN file.doc ELSE EmptyStatus

normalize_identifier(value, fallback) ==
    IF value = NoStr THEN fallback
    ELSE LET cleaned == [i \in 1..Len(strip(value)) |-> lower(strip(value)[i])]
         IN  IF cleaned = <<>> THEN fallback ELSE re_sub_dash(cleaned, FALSE)

\* hashlib.sha256(...).hexdigest(), taken as collision-free: the digest
\* stands for the byte string it was computed from
sha256_hexdigest(payload) == <<"sha256">> \o payload

\* the reset flag is hashed as f"{int(reset_step)}"
trigger_fingerprint(reason, task, reset_step, tenant_id, agent_id, project_id) ==
    sha256_hexdigest(strip(reason) \o <<"|">> \o strip(task) \o <<"|", IF reset_step THEN "1" ELSE "0", "|">>
                     \o strip(tenant_id) \o <<"|">> \o strip(agent_id) \o <<"|">>
                     \o strip(project_id))

should_skip_duplicate_strict(file, fingerprint, dedup_seconds, now_epoch) ==
    /\ dedup_seconds > 0
    /\ file.kind = "dict"
    /\ file.fingerprint # NoStr
    /\ file.fingerprint = fingerprint
    /\ file.requested_at_epoch # -1
    /\ (now_epoch - file.requested_at_epoch) < dedup_seconds

\* should_skip_duplicate, with the clock reading passed in
should_skip_duplicate(file, fingerprint, dedup_seconds, now_epoch) ==
    /\ dedup_seconds > 0
    /\ file.kind = "dict"
    /\ file.fingerprint # NoStr
    /\ file.fingerprint = fingerprint
    /\ file.requested_at_epoch # -1
    /\ (now_epoch - file.requested_at_epoch) <= dedup_seconds

\* main(), lines 147-151: the identifiers of a request made with arguments
\* args = <<reset_step, --project-id>> and no --tenant-id / --agent-id
request_ids(file, args) ==
    LET status == read_status(file)
    IN  [tenant_id |-> normalize_identifier(<<>>, str_or(status.tenant_id, DEFAULT_ID)),
         agent_id |-> normalize_identifier(<<>>, str_or(status.agent_id, MAIN_ID)),
         project_id |-> normalize_identifier(args[2], str_or(status.project_id, REPO_NAME))]

\* main(), lines 153-165: STATUS.json after the request
requested_status(file, args) ==
    LET ids == request_ids(file, args)
        status1 == [read_status(file) EXCEPT
                       !.state = "idle", !.needs_human = FALSE, !.human_question = "",
                       !.last_error_sig = "triggered", !.last_action = "triggered_run",
                       !.tenant_id = ids.tenant_id, !.agent_id = ids.agent_id,
                       !.project_id = ids.project_id]
    IN  IF file.kind # "dict" THEN file
        ELSE IF args[1] THEN save_status([status1 EXCEPT !.current_step = 1, !.checkpoint_id = <<>>])
        ELSE save_status(status1)

\* main(), lines 168-175, with the default reason and no --task
request_fingerprint(file, args) ==
    LET ids == request_ids(file, args)
    IN  trigger_fingerprint(REASON_MANUAL, <<>>, args[1],
                            ids.tenant_id, ids.agent_id, ids.project_id)

\* main(), lines 180-192: the TRIGGER.json document written
queued_trigger(file, args, now_epoch) ==
    LET ids == request_ids(file, args)
    IN  [kind |-> "dict", reset_step |-> IF args[1] THEN "true" ELSE "false",
         tenant_id |-> ids.tenant_id, agent_id |-> ids.agent_id, project_id |-> ids.project_id,
         fingerprint |-> request_fingerprint(file, args), requested_at_epoch |-> now_epoch]

\* ------------------------------------------------------------ namespace
resolve_runtime_namespace(status, namespace_config) ==
    [tenant_id |-> _normalize_identifier(status.tenant_id, namespace_config.tenant_id),
     agent_id |-> _normalize_identifier(status.agent_id, namespace_config.default_agent_id),
     project_id |-> _normalize_identifier(status.project_id, namespace_config.default_project_id)]

apply_namespace_to_status_not(status, namespace) == status

apply_namespace_to_status(status, namespace) ==
    [status EXCEPT !.tenant_id = namespace.tenant_id,
                   !.agent_id = namespace.agent_id,
                   !.project_id = namespace.project_id]

MEMORY_NAMESPACE_DEFAULTS ==
    [tenant_id |-> DEFAULT_ID, default_agent_id |-> MAIN_ID, default_project_id |-> DEFAULT_ID]

\* -------------------------------------------------------------- variables
VARIABLES cfg, status_file, trigger_file, log, checkpoints, now,
          pc, attempts, iters, rewrites, it, trig

vars == <<cfg, status_file, trigger_file, log, checkpoints, now, pc, attempts, iters, rewrites, it, trig>>

blueprint == load_blueprint(cfg.blueprint_file)

\* run_workspace_tests: a missing run_tests.py counts as passed, otherwise
\* the exit code of the script (or its timeout) decides.
run_workspace_tests == IF cfg.run_tests_py THEN BOOLEAN ELSE {TRUE}

\* What trigger_supervisor.py did so far and what load_trigger_payload last
\* deleted: the number of requests made, the number of trigger documents
\* written, the last document read and the last one unlinked, and the
\* latest request's outcome with the point of the loop at which it ran.
NewTrig(file) ==
    [requests |-> 0, written |-> IF file.kind = "absent" THEN 0 ELSE 1,
     consumed |-> AbsentTrigger, unlinked |-> AbsentTrigger,
     last |-> [outcome |-> "none", fingerprint |-> NoStr, reset_step |-> FALSE, at |-> -1,
               status_existed |-> FALSE, iters |-> 0, pc |-> ""]]

\* Locals of one pass through the `while True` body, and what that pass did.
NewIteration ==
    [status_existed |-> FALSE, triggered |-> FALSE, start_state |-> "", selected_step |-> 0, step |-> NoStep,
     host_sync_step |-> FALSE, start_needed |-> FALSE, namespace |-> MEMORY_NAMESPACE_DEFAULTS,
     primary_rc |-> -1, fallback_rc |-> -1, codex_rc |-> -1,
     plan |-> "eq", result |-> "eq",
     primary_calls |-> 0, fallback_calls |-> 0, reloaded_step |-> 0,
     tests_ran |-> FALSE, first_test_rc |-> -1, test_rc |-> -1, test_attempts |-> 0,
     test_runs |-> <<>>, trigger_status |-> EmptyStatus, status |-> EmptyStatus,
     advanced |-> FALSE, checkpointed |-> FALSE,
     autopr_calls |-> 0, autopr_rc |-> -1,
     log_mark |-> 0, records |-> 0, branch |-> "", slept |-> FALSE,
     entered_at |-> 0, passed |-> {}]

\* ------------------------------------------------------------------- Init
\* Sessions: the command line and openclaw.json (cfg), and the documents
\* found on disk when loop() is entered.
Config(run_once, max_attempts, qa_retries, blueprint_file, autopr, sync_target) ==
    [run_once |-> run_once, max_attempts |-> max_attempts, qa_retries |-> qa_retries,
     force_start |-> FALSE, sync_target |-> sync_target, run_tests_py |-> FALSE,
     autopr_enabled |-> autopr # "off", autopr_required |-> autopr = "required",
     blueprint_file |-> blueprint_file,
     external_triggers |-> FALSE, dedup_seconds |-> DEDUP_SECONDS,
     git |-> "repository"]

BP_ABSENT == [kind |-> "absent", steps |-> <<>>]
BP_ONE == [kind |-> "dict", steps |-> << Step(1, "verify", {"run", "tests"}, "unset", TRUE) >>]
BP_SYNC == [kind |-> "dict", steps |-> << Step(1, "implement", {"implement"}, "false", FALSE),
                                          [isdict |-> FALSE, id |-> 0, name |-> "", words |-> {},
                                           requires_test |-> "unset", checkpoint |-> FALSE],
                                          Step(2, "publish", {"sync", "skill"}, "true", FALSE) >>]

\* run-once sessions: the attempt budget cannot be reached in one pass
ConfigsOnce ==
    { Config(TRUE, 1, r, b, "off", FALSE) :
        r \in 0..MaxRetriesCfg,
        b \in { BP_ABSENT, [kind |-> "invalid", steps |-> <<>>], BP_ONE, BP_SYNC,
                [kind |-> "dict", steps |-> << Step(1, "build", {"build"}, "true", TRUE),
                                               Step(3, "release", {"release"}, "unset", FALSE) >>] } }
    \cup { Config(TRUE, 0, 0, b, a, TRUE) : b \in {BP_ONE, BP_SYNC}, a \in {"optional", "required"} }
    \cup { [Config(TRUE, 0, 0, BP_ABSENT, "off", FALSE) EXCEPT !.force_start = f, !.run_tests_py = TRUE] :
             f \in BOOLEAN }
    \cup { Config(TRUE, 0, MaxRetriesCfg + 2, b, "off", FALSE) : b \in {BP_ABSENT, BP_SYNC} }

\* sessions that sleep and iterate
ConfigsLoop ==
    { Config(FALSE, m, 0, BP_ABSENT, "off", FALSE) : m \in 0..MaxAttemptsCfg }
    \cup { Config(FALSE, 0, MaxRetriesCfg, BP_ONE, a, FALSE) : a \in {"optional", "required"} }
    \cup { Config(FALSE, MaxAttemptsCfg, 0, BP_SYNC, "off", t) : t \in BOOLEAN }

\* sessions during which trigger_supervisor.py is run (without kickstart)
ConfigsTriggered ==
    { [Config(TRUE, 0, 0, BP_ONE, "off", FALSE) EXCEPT !.external_triggers = TRUE,
                                                        !.dedup_seconds = d] :
        d \in {0, DEDUP_SECONDS} }

STATUS_RUNNING ==
    save_status([EmptyStatus EXCEPT !.state = "running", !.current_step = 2,
                                    !.last_cmd = "codex exec resume --last",
                                    !.tenant_id = DEFAULT_ID, !.agent_id = MAIN_ID,
                                    !.project_id = NORM_PROJECT])
STATUS_DONE ==
    save_status([EmptyStatus EXCEPT !.state = "done", !.current_step = 5,
                                    !.last_test_ok = TRUE, !.last_test_attempts = 1,
                                    !.tenant_id = DEFAULT_ID, !.agent_id = MAIN_ID,
                                    !.project_id = DEFAULT_ID])
STATUS_BLOCKED ==
    save_status([EmptyStatus EXCEPT !.state = "blocked", !.current_step = 1, !.needs_human = TRUE,
                                    !.human_question = "codex exec failed",
                                    !.last_error_sig = "codex_failed",
                                    !.tenant_id = DEFAULT_ID, !.agent_id = MAIN_ID,
                                    !.project_id = DEFAULT_ID])

\* The documents a run-once session may find, those of a looping one, and
\* those of a session during which trigger_supervisor.py is run: with or
\* without a request made just before the session started, with a trigger
\* document that was not written by trigger_supervisor.py, or with a request
\* still pending that an earlier session overwrote the status of.
Init ==
    LET STATUS_IDLE ==
            save_status([EmptyStatus EXCEPT !.state = "idle", !.current_step = 1, !.last_cmd = "codex exec",
                                            !.project_id = RAW_PROJECT])
        InitStatusFiles ==
            {AbsentFile, [kind |-> "nondict", doc |-> EmptyStatus], STATUS_IDLE, STATUS_RUNNING, STATUS_DONE, STATUS_BLOCKED}
        InitTriggerFiles ==
            { AbsentTrigger, GarbageTrigger, Trigger("true", NoStr), Trigger("false", OTHER_PROJECT),
              Trigger("other", RAW_PROJECT) }
        DocumentsOnce ==
            (InitStatusFiles \X {AbsentTrigger})
            \cup ({STATUS_BLOCKED, STATUS_DONE} \X InitTriggerFiles)
            \cup {<<AbsentFile, Trigger("false", OTHER_PROJECT)>>, <<STATUS_RUNNING, Trigger("other", RAW_PROJECT)>>}
        DocumentsLoop ==
            { <<AbsentFile, AbsentTrigger>>, <<STATUS_RUNNING, AbsentTrigger>>,
              <<STATUS_BLOCKED, Trigger("true", NoStr)>> }
        DocumentsTriggered ==
            { <<f, AbsentTrigger>> : f \in {AbsentFile, STATUS_BLOCKED} }
            \cup { << requested_status(f, <<TRUE, <<>> >>), queued_trigger(f, <<TRUE, <<>> >>, 0) >> :
                     f \in {AbsentFile, STATUS_BLOCKED} }
            \cup { <<STATUS_BLOCKED, GarbageTrigger>>, <<STATUS_BLOCKED, Trigger("true", NoStr)>>,
                   <<STATUS_BLOCKED, queued_trigger(STATUS_BLOCKED, <<TRUE, <<>> >>, 0)>> }
    IN
    /\ \/ /\ cfg \in ConfigsOnce
          /\ \E d \in DocumentsOnce : status_file = d[1] /\ trigger_file = d[2]
       \/ /\ cfg \in ConfigsLoop
          /\ \E d \in DocumentsLoop : status_file = d[1] /\ trigger_file = d[2]
       \/ /\ cfg \in ConfigsTriggered
          /\ \E d \in DocumentsTriggered : status_file = d[1] /\ trigger_file = d[2]
    /\ log = <<>>
    /\ checkpoints = <<>>
    /\ now = 0
    /\ pc = "iter_start"
    /\ attempts = 0
    /\ iters = 1
    /\ rewrites = 0
    /\ it = NewIteration
    /\ trig = NewTrig(trigger_file)

\* ------------------------------------------------- loop(): top of the body
\* Lines 1024-1113: load status, consume and apply a trigger, recompute the
\* namespace, terminal check, attempt budget, step selection, host-sync
\* target check, mark running; ends where the primary invocation starts.
is_terminal_done_only(state) == state = "done"

\* Line 1038
is_terminal(state) == state \in {"done", "blocked"}

budget_exhausted_late(max_attempts, made) == max_attempts > 0 /\ made > max_attempts

\* Line 1042
budget_exhausted(max_attempts, made) == max_attempts > 0 /\ made >= max_attempts

Blocked_state_only(status, question, sig) ==
    [status EXCEPT !.state = "blocked", !.last_error_sig = sig]

Blocked(status, question, sig) ==
    [status EXCEPT !.state = "blocked", !.needs_human = TRUE,
                   !.human_question = question, !.last_error_sig = sig]

\* The pass from line 1024 to line 1106.  read_file is STATUS.json as loaded
\* at line 1024 and disk_file as apply_trigger reloads it; TRIGGER.json is
\* read as it is now and disk_trigger is the document that unlink() removes.
iter_start(read_file, disk_file, disk_trigger, trig0) ==
    /\ \E trigger \in {load_trigger_payload(trigger_file)} :
       \E applied \in {payload_truthy(trigger)} :
       \E status0 \in {load_status(IF applied THEN disk_file ELSE read_file)} :
       \E status1 \in {IF applied THEN apply_trigger_status(status0, trigger) ELSE status0} :
       \E runtime_namespace \in {resolve_runtime_namespace(status1, MEMORY_NAMESPACE_DEFAULTS)} :
       \E ns_differs \in { \/ status1.tenant_id # runtime_namespace.tenant_id
                            \/ status1.agent_id # runtime_namespace.agent_id
                            \/ status1.project_id # runtime_namespace.project_id } :
       \E status2 \in {IF ns_differs THEN apply_namespace_to_status(status1, runtime_namespace)
                        ELSE status1} :
       \E status3 \in {IF status2.current_step = 0 THEN [status2 EXCEPT !.current_step = 1]
                        ELSE status2} :
       LET file1 == IF applied THEN save_status(status1) ELSE disk_file
           log1 == IF applied THEN append_nightly_log(log, <<"triggered">>) ELSE log
           file2 == IF ns_differs THEN save_status(status2) ELSE file1
           state == IF status2.state = "" THEN "idle" ELSE status2.state
           it0 == [NewIteration EXCEPT !.status_existed = (read_file.kind # "absent"),
                                       !.triggered = applied, !.start_state = state,
                                       !.trigger_status = IF applied THEN load_status(file1)
                                                          ELSE EmptyStatus,
                                       !.namespace = runtime_namespace,
                                       !.log_mark = Len(log1),
                                       !.records = IF applied THEN 1 ELSE 0,
                                       !.entered_at = it.entered_at, !.passed = it.passed]
           file3 == IF status2.current_step = 0 THEN save_status(status3) ELSE file2
           step == get_step(blueprint, status3.current_step)
           host_sync_step == is_host_sync_step(step)
           start_needed == cfg.force_start \/ status3.last_cmd = "" \/ cfg.sync_target
           it1 == [it0 EXCEPT !.selected_step = status3.current_step, !.step = step,
                              !.host_sync_step = host_sync_step, !.start_needed = start_needed,
                              !.entered_at = IF @ = 0 THEN status3.current_step ELSE @]
       IN  /\ trigger_file' = unlink_trigger(disk_trigger)
           /\ trig' = [trig0 EXCEPT !.consumed = IF trigger_file.kind = "absent" THEN @
                                                 ELSE trigger_file,
                                    !.unlinked = IF trigger_file.kind = "absent" THEN @
                                                 ELSE disk_trigger]
           /\ IF is_terminal(state)
              THEN /\ status_file' = file2
                   /\ log' = log1
                   /\ it' = [it0 EXCEPT !.branch = "terminal"]
                   /\ pc' = "returned"
              ELSE IF budget_exhausted(cfg.max_attempts, attempts)
              THEN \E workspace_test_ok \in run_workspace_tests :
                   /\ status_file' = save_status(Blocked(status2, "Reached max_attempts", "max_attempts"))
                   /\ log' = record_check_result(log1, <<"max_attempts">>, workspace_test_ok)
                   /\ it' = [it0 EXCEPT !.branch = "max_attempts", !.records = @ + 1]
                   /\ pc' = "returned"
              ELSE IF step = NoStep
              THEN /\ status_file' = save_status([status3 EXCEPT !.state = "done"])
                   /\ log' = log1
                   /\ it' = [it1 EXCEPT !.branch = "no_more_steps"]
                   /\ pc' = "returned"
              ELSE IF sync_target_missing(host_sync_step, cfg.sync_target)
              THEN \E workspace_test_ok \in run_workspace_tests :
                   /\ status_file' = save_status(Blocked(status3, "Sync step detected but no target",
                                                         "sync_target_missing"))
                   /\ log' = record_check_result(log1, <<"sync_target_missing">>, workspace_test_ok)
                   /\ it' = [it1 EXCEPT !.branch = "sync_target_missing", !.records = @ + 1]
                   /\ pc' = "returned"
              ELSE /\ status_file' = save_status(
                        [status3 EXCEPT !.state = "running",
                                        !.last_cmd = IF host_sync_step THEN "sync_to_skill.py"
                                                     ELSE IF start_needed THEN "codex exec"
                                                     ELSE "codex exec resume --last"])
                   /\ log' = log1
                   /\ it' = it1
                   /\ pc' = "agent"
    /\ UNCHANGED <<cfg, checkpoints, attempts, iters, rewrites>>

\* one pass from line 1024 to line 1106 with nothing else running
IterStart ==
    /\ pc = "iter_start"
    /\ iter_start(status_file, status_file, trigger_file, trig)
    /\ UNCHANGED now

\* ------------------------------------------------ the external agent call
\* Exit codes of run_cmd: 0, a generic failure, 124 (timeout).
AgentExitCodes == {0, 1, 124}

\* mtime of PLAN.md and of RESULT.md after the call against the snapshot
\* taken before the primary call: equal, newer, or older (file removed: 0).
Progress == { <<"eq", "eq">>, <<"gt", "eq">>, <<"eq", "gt">>, <<"lt", "eq">> }

\* What the agent wrote to STATUS.json while it ran (the prompt asks it to
\* keep the document up to date and to set blocked / done itself).
AgentRewrites == {"none", "done", "blocked", "step"}

agent_rewrite(file, rewrite) ==
    LET status == load_status(file)
    IN  CASE rewrite = "none" -> file
          [] rewrite = "done" -> save_status([status EXCEPT !.state = "done"])
          [] rewrite = "blocked" -> save_status([status EXCEPT !.state = "blocked"])
          [] rewrite = "step" -> save_status([status EXCEPT !.current_step = @ + 1])

fallback_needed_any_rc(host_sync_step, codex_rc, plan, result) ==
    /\ ~host_sync_step
    /\ plan = "eq"
    /\ result = "eq"

\* Lines 1140-1145: the condition of the force-write fallback
fallback_needed(host_sync_step, codex_rc, plan, result) ==
    /\ ~host_sync_step
    /\ codex_rc \in {124, 0}
    /\ plan = "eq"
    /\ result = "eq"

count_attempt_never(made) == made

\* Line 1134: attempts += 1
count_attempt(made) == made + 1

\* Lines 1114-1145: the primary call (host sync, start or resume) returns.
PrimaryReturns ==
    /\ pc = "agent"
    /\ \E rc \in AgentExitCodes :
       \E progress \in (IF it.host_sync_step THEN { <<"eq", "eq">> } ELSE Progress) :
       \E rewrite \in (IF it.host_sync_step \/ rewrites >= MaxRewrites THEN {"none"}
                        ELSE AgentRewrites) :
          /\ status_file' = agent_rewrite(status_file, rewrite)
          /\ rewrites' = IF rewrite = "none" THEN rewrites ELSE rewrites + 1
          /\ attempts' = count_attempt(attempts)
          /\ it' = [it EXCEPT !.primary_rc = rc, !.codex_rc = rc,
                              !.plan = progress[1], !.result = progress[2],
                              !.primary_calls = @ + 1,
                              !.reloaded_step = load_status(agent_rewrite(status_file, rewrite)).current_step]
          /\ pc' = IF fallback_needed(it.host_sync_step, rc, progress[1], progress[2])
                   THEN "fallback" ELSE "classify"
    /\ UNCHANGED <<cfg, trig, trigger_file, log, checkpoints, now, iters>>

\* Lines 1146-1155: the fallback call returns; its exit code replaces codex_rc.
FallbackReturns ==
    /\ pc = "fallback"
    /\ \E rc2 \in AgentExitCodes, progress \in Progress,
          rewrite \in (IF rewrites >= MaxRewrites THEN {"none"} ELSE AgentRewrites) :
          /\ status_file' = agent_rewrite(status_file, rewrite)
          /\ rewrites' = IF rewrite = "none" THEN rewrites ELSE rewrites + 1
          /\ it' = [it EXCEPT !.fallback_rc = rc2, !.codex_rc = rc2,
                              !.plan = progress[1], !.result = progress[2],
                              !.fallback_calls = @ + 1,
                              !.reloaded_step = load_status(agent_rewrite(status_file, rewrite)).current_step]
          /\ pc' = "classify"
    /\ UNCHANGED <<cfg, trig, trigger_file, log, checkpoints, now, attempts, iters>>

\* ------------------------------------------------- outcome classification
progress_seen_plan_only(i) == i.plan = "gt"

progress_seen(i) == i.plan = "gt" \/ i.result = "gt"

no_change(i) == i.plan = "eq" /\ i.result = "eq"

is_timeout_primary(i) == i.primary_rc = 124 /\ ~i.host_sync_step

is_timeout(i) == i.codex_rc = 124 /\ ~i.host_sync_step

\* `return` in run-once mode, else time.sleep(...) and the next pass
after_iteration == IF cfg.run_once THEN "returned" ELSE "sleep"

\* Lines 1157-1182
TimeoutWithProgress ==
    /\ pc = "classify"
    /\ is_timeout(it)
    /\ progress_seen(it)
    /\ \E workspace_test_ok \in run_workspace_tests :
          /\ status_file' = save_status(
                [load_status(status_file) EXCEPT !.state = "idle", !.needs_human = FALSE,
                    !.human_question = "", !.last_error_sig = "codex_timeout_progress",
                    !.last_action = "codex_timeout_with_progress"])
          /\ log' = record_check_result(log, <<"codex_timeout_progress">>, workspace_test_ok)
    /\ it' = [it EXCEPT !.branch = "codex_timeout_progress", !.records = @ + 1,
                        !.slept = ~cfg.run_once]
    /\ pc' = after_iteration
    /\ UNCHANGED <<cfg, trig, trigger_file, checkpoints, now, attempts, iters, rewrites>>

\* Lines 1183-1206
TimeoutNoProgress ==
    /\ pc = "classify"
    /\ is_timeout(it)
    /\ ~progress_seen(it)
    /\ IF ~cfg.run_once
       THEN /\ UNCHANGED <<status_file, log>>
            /\ it' = [it EXCEPT !.branch = "codex_timeout", !.slept = TRUE]
            /\ pc' = "sleep"
       ELSE \E workspace_test_ok \in run_workspace_tests :
            /\ status_file' = save_status(Blocked(load_status(status_file),
                                                  "codex exec timed out", "codex_timeout"))
            /\ log' = record_check_result(log, <<"codex_timeout">>, workspace_test_ok)
            /\ it' = [it EXCEPT !.branch = "codex_timeout", !.records = @ + 1]
            /\ pc' = "returned"
    /\ UNCHANGED <<cfg, trig, trigger_file, checkpoints, now, attempts, iters, rewrites>>

\* Lines 1208-1231
NoProgress ==
    /\ pc = "classify"
    /\ ~is_timeout(it)
    /\ ~it.host_sync_step
    /\ no_change(it)
    /\ IF ~cfg.run_once
       THEN /\ UNCHANGED <<status_file, log>>
            /\ it' = [it EXCEPT !.branch = "codex_no_progress", !.slept = TRUE]
            /\ pc' = "sleep"
       ELSE \E workspace_test_ok \in run_workspace_tests :
            /\ status_file' = save_status(Blocked(load_status(status_file),
                                                  "codex exec finished but made no progress",
                                                  "codex_no_progress"))
            /\ log' = record_check_result(log, <<"codex_no_progress">>, workspace_test_ok)
            /\ it' = [it EXCEPT !.branch = "codex_no_progress", !.records = @ + 1]
            /\ pc' = "returned"
    /\ UNCHANGED <<cfg, trig, trigger_file, checkpoints, now, attempts, iters, rewrites>>

failure_sig_codex_only(host_sync_step) == "codex_failed"

\* Lines 1245-1248, 1260
failure_sig(host_sync_step) == IF host_sync_step THEN "sync_failed" ELSE "codex_failed"

\* Lines 1233-1264
AgentFailed ==
    /\ pc = "classify"
    /\ ~is_timeout(it)
    /\ ~(~it.host_sync_step /\ no_change(it))
    /\ it.codex_rc # 0
    /\ LET sig == failure_sig(it.host_sync_step)
       IN  IF ~cfg.run_once
           THEN /\ UNCHANGED <<status_file, log>>
                /\ it' = [it EXCEPT !.branch = sig, !.slept = TRUE]
                /\ pc' = "sleep"
           ELSE \E workspace_test_ok \in run_workspace_tests :
                /\ status_file' = save_status(Blocked(load_status(status_file),
                        IF it.host_sync_step THEN "sync_to_skill.py failed" ELSE "codex exec failed",
                        sig))
                /\ log' = record_check_result(log, <<sig>>, workspace_test_ok)
                /\ it' = [it EXCEPT !.branch = sig, !.records = @ + 1]
                /\ pc' = "returned"
    /\ UNCHANGED <<cfg, trig, trigger_file, checkpoints, now, attempts, iters, rewrites>>

\* Lines 1233-1234 and 1266: the agent exited 0; the status is read and
\* verification starts.
AgentOk ==
    /\ pc = "classify"
    /\ ~is_timeout(it)
    /\ ~(~it.host_sync_step /\ no_change(it))
    /\ it.codex_rc = 0
    /\ it' = [it EXCEPT !.status = load_status(status_file)]
    /\ pc' = "verify"
    /\ UNCHANGED <<cfg, trig, status_file, trigger_file, log, checkpoints, now, attempts, iters, rewrites>>

\* ------------------------------------------------------------ verification

\* run_tests_with_retry: outcomes[k] is the exit code of the k-th run.
RECURSIVE run_tests_with_retry_from(_, _, _)
run_tests_with_retry_from(outcomes, retries, made) ==
    LET n == made + 1
        rc == outcomes[n]
    IN  IF rc = 0 THEN <<rc, n>>
        ELSE IF n > retries THEN <<rc, n>>
        ELSE run_tests_with_retry_from(outcomes, retries, n)

\* the run_tests calls the while loop of run_tests_with_retry makes, as the
\* sequence of their exit codes
RECURSIVE run_tests_calls_from(_, _, _)
run_tests_calls_from(outcomes, retries, made) ==
    LET n == made + 1
        rc == outcomes[n]
    IN  IF rc = 0 THEN <<rc>>
        ELSE IF n > retries THEN <<rc>>
        ELSE <<rc>> \o run_tests_calls_from(outcomes, retries, n)

run_tests_calls(outcomes, retries) == run_tests_calls_from(outcomes, retries, 0)

run_tests_with_retry_off_by_one(outcomes, retries) ==
    run_tests_with_retry_from(outcomes, retries - 1, 0)

run_tests_with_retry_zero_based(outcomes, retries) ==
    << run_tests_with_retry_from(outcomes, retries, 0)[1],
       run_tests_with_retry_from(outcomes, retries, 0)[2] - 1 >>

run_tests_with_retry(outcomes, retries) == run_tests_with_retry_from(outcomes, retries, 0)

step_ok_always(step, test_rc) == TRUE

\* Lines 1273-1275
step_ok(step, test_rc) == IF step_requires_test(step) THEN test_rc = 0 ELSE TRUE

state_after_tests_kept(state) == state

\* Lines 1269-1270
state_after_tests(state) == IF state \notin {"blocked", "done"} THEN "idle" ELSE state

\* write_checkpoint names its two files step-<id>-<YYYYmmdd_HHMMSS>
checkpoint_name(step, ts) == <<step.id, ts>>

\* What `git` is to the session: the repository's git, a git that exits
\* non-zero because the directory is no repository, or no executable.
\* Lines 315-321: subprocess.run(["git", "diff", "--binary"], check=False)
\* returns whatever git exits with, and raises FileNotFoundError when there
\* is no git to run; write_checkpoint has no handler and neither has loop().
write_checkpoint_raises(git) == git = "absent"

\* Lines 1285-1296
status_parts(test_rc, test_attempts) ==
    IF test_rc = 0
    THEN IF test_attempts > 1 THEN <<"codex_ok", "tests_ok", "tests_retried">>
         ELSE <<"codex_ok", "tests_ok">>
    ELSE <<"codex_ok", "tests_failed">>

autopr_gate_ignores_tests(test_rc, status, enabled) == status.state = "done" /\ enabled

\* Lines 1309-1311: the status is the one re-read after recording
autopr_gate(test_rc, status, enabled) == test_rc = 0 /\ status.state = "done" /\ enabled

\* Lines 1266-1312: verification returns; gate, checkpoint, advance, record,
\* and the decision to call autopr.
VerifyReturns ==
    /\ pc = "verify"
    /\ \E outcomes \in [1..(cfg.qa_retries + 1) -> {0, 1}] :
       \E workspace_test_ok \in run_workspace_tests :
       \E ts \in {now, now + 1} :
          LET tested == run_tests_with_retry(outcomes, cfg.qa_retries)
              test_rc == tested[1]
              test_attempts == tested[2]
              status0 == it.status
              status1 == [status0 EXCEPT !.last_test_ok = (test_rc = 0),
                                         !.last_test_attempts = test_attempts,
                                         !.state = state_after_tests(@)]
              ok == step_ok(it.step, test_rc)
              checkpoint == ok /\ step_allows_checkpoint(it.step)
              status2 == IF checkpoint
                         THEN [status1 EXCEPT !.checkpoint_id = checkpoint_name(it.step, ts)]
                         ELSE status1
              status3 == [status2 EXCEPT !.current_step = @ + 1]
              status4 == IF get_step(blueprint, status3.current_step) = NoStep
                            /\ status3.state # "blocked"
                         THEN [status3 EXCEPT !.state = "done"]
                         ELSE status3
              final == IF ok THEN status4 ELSE status1
          IN  IF checkpoint /\ write_checkpoint_raises(cfg.git)
              THEN \* line 1279 raises: the status saved at line 1271 stays
                   /\ status_file' = save_status(status1)
                   /\ UNCHANGED <<checkpoints, log>>
                   /\ now' = ts
                   /\ it' = [it EXCEPT !.status = status1,
                                       !.tests_ran = TRUE, !.first_test_rc = outcomes[1],
                                       !.test_rc = test_rc,
                                       !.test_attempts = test_attempts,
                                       !.test_runs = run_tests_calls(outcomes, cfg.qa_retries),
                                       !.branch = "write_checkpoint_raised"]
                   /\ pc' = "raised"
              ELSE
              /\ status_file' = save_status(final)
              /\ checkpoints' = IF checkpoint THEN Append(checkpoints, checkpoint_name(it.step, ts))
                                ELSE checkpoints
              /\ now' = IF checkpoint THEN ts ELSE now
              /\ log' = record_check_result(log, status_parts(test_rc, test_attempts),
                                             workspace_test_ok)
              /\ LET call_autopr == autopr_gate(test_rc, final, cfg.autopr_enabled)
                 IN  /\ it' = [it EXCEPT !.status = final,
                                         !.tests_ran = TRUE, !.first_test_rc = outcomes[1],
                                         !.test_rc = test_rc,
                                         !.test_attempts = test_attempts,
                                         !.test_runs = run_tests_calls(outcomes, cfg.qa_retries),
                                         !.advanced = ok, !.checkpointed = checkpoint,
                                         !.passed = IF ok THEN @ \cup {it.step.id} ELSE @,
                                         !.records = @ + 1,
                                         !.branch = IF test_rc = 0 THEN "tests_ok" ELSE "tests_failed",
                                         !.slept = ~call_autopr /\ ~cfg.run_once]
                     /\ pc' = IF call_autopr THEN "autopr" ELSE after_iteration
    /\ UNCHANGED <<cfg, trig, trigger_file, attempts, iters, rewrites>>

\* ------------------------------------------------------------------ autopr

\* line 1313: a failed delivery stops the loop only when marked required
autopr_blocks_any_failure(autopr_rc, required) == autopr_rc # 0

autopr_blocks(autopr_rc, required) == autopr_rc # 0 /\ required

\* run_autopr: 0, a failure of autopr.py, 124 (timeout), 127 (script missing)
\* Lines 1312-1336
AutoprReturns ==
    /\ pc = "autopr"
    /\ \E autopr_rc \in {0, 1, 124, 127} :
          IF autopr_blocks(autopr_rc, cfg.autopr_required)
          THEN \E workspace_test_ok \in run_workspace_tests :
               /\ status_file' = save_status(Blocked(it.status, "Auto-PR failed", "autopr_failed"))
               /\ log' = record_check_result(log, <<"autopr_failed">>, workspace_test_ok)
               /\ it' = [it EXCEPT !.autopr_calls = @ + 1, !.autopr_rc = autopr_rc,
                                   !.records = @ + 1, !.branch = "autopr_failed"]
               /\ pc' = "returned"
          ELSE /\ UNCHANGED <<status_file, log>>
               /\ it' = [it EXCEPT !.autopr_calls = @ + 1, !.autopr_rc = autopr_rc,
                                   !.slept = ~cfg.run_once]
               /\ pc' = after_iteration
    /\ UNCHANGED <<cfg, trig, trigger_file, checkpoints, now, attempts, iters, rewrites>>

\* ------------------------------------------------------------------- sleep
\* time.sleep(interval) / time.sleep(attempt_sleep) ends, next pass of the
\* while loop.
Wake ==
    /\ pc = "sleep"
    /\ iters < MaxIters
    /\ pc' = "iter_start"
    /\ iters' = iters + 1
    /\ it' = [NewIteration EXCEPT !.entered_at = it.entered_at, !.passed = it.passed]
    /\ UNCHANGED <<cfg, trig, status_file, trigger_file, log, checkpoints, now, attempts, rewrites>>

\* ------------------------------------------------------ sessions, forever
\* The same loop followed without a limit on its passes, which are not
\* counted.  No session reads the run log, and a session with
\* max_attempts = 0 never reads `attempts`: when a session wakes up, the
\* lines of earlier passes are dropped, and so is the count of attempts of
\* a session without a budget, which keeps the states finite.
WakeLive ==
    /\ pc = "sleep"
    /\ pc' = "iter_start"
    /\ attempts' = IF cfg.max_attempts > 0 THEN attempts ELSE 0
    /\ log' = <<>>
    /\ it' = [NewIteration EXCEPT !.entered_at = it.entered_at, !.passed = it.passed]
    /\ UNCHANGED <<cfg, trig, status_file, trigger_file, checkpoints, now, iters, rewrites>>

\* the loop-mode sessions, with and without a budget, and two run-once ones
InitLive ==
    /\ cfg \in ConfigsLoop \cup { Config(TRUE, m, MaxRetriesCfg, BP_ABSENT, "off", FALSE) :
                                    m \in {0, MaxAttemptsCfg} }
    /\ \E d \in { <<AbsentFile, AbsentTrigger>>, <<STATUS_BLOCKED, Trigger("true", NoStr)>> } :
          status_file = d[1] /\ trigger_file = d[2]
    /\ log = <<>>
    /\ checkpoints = <<>>
    /\ now = 0
    /\ pc = "iter_start"
    /\ attempts = 0
    /\ iters = 1
    /\ rewrites = 0
    /\ it = NewIteration
    /\ trig = NewTrig(trigger_file)

NextLive ==
    \/ IterStart
    \/ PrimaryReturns
    \/ FallbackReturns
    \/ TimeoutWithProgress
    \/ TimeoutNoProgress
    \/ NoProgress
    \/ AgentFailed
    \/ AgentOk
    \/ VerifyReturns
    \/ AutoprReturns
    \/ WakeLive

\* every subprocess call returns and every sleep ends
SpecLive == InitLive /\ [][NextLive]_vars /\ WF_vars(NextLive)

\* ------------------------------------------- trigger_supervisor.py main()

\* One run of trigger_supervisor.py --no-kickstart with the default reason
\* and no --task, `elapsed` seconds after the last clock reading: rewrite
\* STATUS.json when it holds an object, compute the fingerprint, drop the
\* request when it is a duplicate, else write TRIGGER.json.  The clock is
\* advanced only when a stored requested_at_epoch makes the reading matter.
TriggerRequest ==
    /\ cfg.external_triggers
    /\ trig.requests < MaxRequests
    /\ \E args \in { <<TRUE, <<>> >>, <<FALSE, OTHER_PROJECT>> } :
       \E elapsed \in (IF trigger_file.requested_at_epoch = -1 THEN {0}
                        ELSE {0, DEDUP_SECONDS, DEDUP_SECONDS + 1}) :
          LET now_epoch == now + elapsed
              fingerprint == request_fingerprint(status_file, args)
              skip == should_skip_duplicate(trigger_file, fingerprint,
                                            IF cfg.dedup_seconds > 0 THEN cfg.dedup_seconds ELSE 0,
                                            now_epoch)
          IN  /\ status_file' = requested_status(status_file, args)
              /\ trigger_file' = IF skip THEN trigger_file
                                 ELSE queued_trigger(status_file, args, now_epoch)
              /\ now' = now_epoch
              /\ trig' = [trig EXCEPT !.requests = @ + 1,
                                      !.written = IF skip THEN @ ELSE @ + 1,
                                      !.last = [outcome |-> IF skip THEN "skipped" ELSE "queued",
                                                fingerprint |-> fingerprint,
                                                reset_step |-> args[1], at |-> now_epoch,
                                                status_existed |-> status_file.kind = "dict",
                                                iters |-> iters, pc |-> pc]]
    /\ UNCHANGED <<cfg, log, checkpoints, pc, attempts, iters, rewrites, it>>

Next ==
    \/ IterStart
    \/ PrimaryReturns
    \/ FallbackReturns
    \/ TimeoutWithProgress
    \/ TimeoutNoProgress
    \/ NoProgress
    \/ AgentFailed
    \/ AgentOk
    \/ VerifyReturns
    \/ AutoprReturns
    \/ Wake
    \/ TriggerRequest

Spec == Init /\ [][Next]_vars

\* ------------------------------ a request made while the trigger is read
\* load_trigger_payload reads TRIGGER.json and then unlinks the path: a run
\* of trigger_supervisor.py that falls between read_text() and unlink()
\* rewrites STATUS.json and, unless it drops its request as a duplicate of
\* the document still there, replaces the document that is then unlinked.
IterStartRaced ==
    /\ pc = "iter_start"
    /\ cfg.external_triggers
    /\ trig.requests < MaxRequests
    /\ trigger_file.kind # "absent"
    /\ \E args \in { <<TRUE, <<>> >>, <<FALSE, OTHER_PROJECT>> } :
       \E elapsed \in (IF trigger_file.requested_at_epoch = -1 THEN {0}
                        ELSE {0, DEDUP_SECONDS, DEDUP_SECONDS + 1}) :
          LET now_epoch == now + elapsed
              fingerprint == request_fingerprint(status_file, args)
              skip == should_skip_duplicate(trigger_file, fingerprint,
                                            IF cfg.dedup_seconds > 0 THEN cfg.dedup_seconds ELSE 0,
                                            now_epoch)
          IN  /\ iter_start(status_file, requested_status(status_file, args),
                            IF skip THEN trigger_file
                            ELSE queued_trigger(status_file, args, now_epoch),
                            [trig EXCEPT !.requests = @ + 1,
                                         !.written = IF skip THEN @ ELSE @ + 1,
                                         !.last = [outcome |-> IF skip THEN "skipped" ELSE "queued",
                                                   fingerprint |-> fingerprint,
                                                   reset_step |-> args[1], at |-> now_epoch,
                                                   status_existed |-> status_file.kind = "dict",
                                                   iters |-> iters, pc |-> pc]])
              /\ now' = now_epoch

NextRace ==
    \/ Next
    \/ IterStartRaced

SpecRace == Init /\ [][NextRace]_vars

\* -------------------------------------------- sessions that revisit a step

\* A loop-mode session without a budget (--interval 0 --max-attempts 0), on
\* a one-step blueprint whose step writes a checkpoint, during which
\* trigger_supervisor.py is run.  As everywhere, the clock is read when a
\* checkpoint is named and when a request is made; no second need pass
\* between two readings.  The session finds any kind of git.
InitRevisit ==
    /\ cfg \in { [Config(FALSE, 0, 0, BP_ONE, "optional", FALSE)
                     EXCEPT !.external_triggers = TRUE, !.git = g] :
                  g \in {"repository", "not_a_repository", "absent"} }
    /\ status_file = AbsentFile
    /\ trigger_file = AbsentTrigger
    /\ log = <<>>
    /\ checkpoints = <<>>
    /\ now = 0
    /\ pc = "iter_start"
    /\ attempts = 0
    /\ iters = 1
    /\ rewrites = 0
    /\ it = NewIteration
    /\ trig = NewTrig(trigger_file)

SpecRevisit == InitRevisit /\ [][Next]_vars

\* ----------------------------------------- calls of trigger_fingerprint
\* The variables the function specifications do not use.
Parked ==
    /\ cfg = Config(TRUE, 0, 0, BP_ABSENT, "off", FALSE)
    /\ status_file = AbsentFile
    /\ trigger_file = AbsentTrigger
    /\ log = <<>>
    /\ checkpoints = <<>>
    /\ now = 0
    /\ attempts = 0
    /\ iters = 0
    /\ rewrites = 0
    /\ trig = NewTrig(AbsentTrigger)

UnchangedParked ==
    UNCHANGED <<cfg, status_file, trigger_file, log, checkpoints, now, attempts, iters, rewrites, trig>>

\* the fields of a trigger request, the correlating handoff id included
FingerprintFields ==
    [reason : {REASON_MANUAL, <<" ">> \o REASON_MANUAL}, task : {<<>>, <<"t">>},
     reset_step : BOOLEAN, tenant_id : {DEFAULT_ID}, agent_id : {MAIN_ID},
     project_id : {NORM_PROJECT, OTHER_PROJECT}, handoff_id : {<<"h", "1">>, <<"h", "2">>}]

\* trigger_fingerprint(*args): the function has six positional parameters
call_trigger_fingerprint(args) ==
    IF Len(args) # 6 THEN [raised |-> "TypeError", value |-> NoStr]
    ELSE [raised |-> "",
          value |-> trigger_fingerprint(args[1], args[2], args[3], args[4], args[5], args[6])]

six_fields(f) == <<f.reason, f.task, f.reset_step, f.tenant_id, f.agent_id, f.project_id>>

seven_fields(f) == six_fields(f) \o <<f.handoff_id>>

InitFingerprint ==
    /\ Parked
    /\ pc = "fingerprint"
    /\ \E left \in FingerprintFields, right \in FingerprintFields :
          it = [left |-> left, right |-> right, arity |-> 0,
                left_fp |-> call_trigger_fingerprint(<<>>),
                right_fp |-> call_trigger_fingerprint(<<>>)]

\* the call as tests/test_trigger_supervisor.py makes it, handoff id last
FingerprintWithHandoff ==
    /\ pc = "fingerprint"
    /\ it' = [it EXCEPT !.arity = 7,
                        !.left_fp = call_trigger_fingerprint(seven_fields(it.left)),
                        !.right_fp = call_trigger_fingerprint(seven_fields(it.right))]
    /\ pc' = "fingerprinted"
    /\ UnchangedParked

\* the call as main() makes it (lines 168-175)
FingerprintAsMain ==
    /\ pc = "fingerprint"
    /\ it' = [it EXCEPT !.arity = 6,
                        !.left_fp = call_trigger_fingerprint(six_fields(it.left)),
                        !.right_fp = call_trigger_fingerprint(six_fields(it.right))]
    /\ pc' = "fingerprinted"
    /\ UnchangedParked

NextFingerprint ==
    \/ FingerprintWithHandoff
    \/ FingerprintAsMain

SpecFingerprint == InitFingerprint /\ [][NextFingerprint]_vars

\* ------------------------------------------------ calls of _truncate_chars
\* text[:n] and text[-n:] of Python (text[-0:] is the whole text)
slice_head(text, n) == SubSeq(text, 1, IF n < Len(text) THEN n ELSE Len(text))

slice_tail(text, n) ==
    IF n = 0 \/ n >= Len(text) THEN text ELSE SubSeq(text, Len(text) - n + 1, Len(text))

ELISION == <<"\n", ".", ".", ".", "\n">>

_truncate_chars_tail_from_start(text, max_chars) ==
    IF max_chars <= 0 THEN <<>>
    ELSE IF Len(text) <= max_chars THEN text
    ELSE LET head == max_chars \div 2
             tail == max_chars - head
         IN  slice_head(text, head) \o ELISION \o SubSeq(text, tail + 1, Len(text))

_truncate_chars(text, max_chars) ==
    IF max_chars <= 0 THEN <<>>
    ELSE IF Len(text) <= max_chars THEN text
    ELSE LET head == max_chars \div 2
             tail == max_chars - head
         IN  slice_head(text, head) \o ELISION \o slice_tail(text, tail)

\* texts over a letter and the characters of the elision marker
InitTruncate ==
    /\ Parked
    /\ pc = "truncate"
    /\ \E text \in (UNION { [1..n -> {"a", ".", "\n"}] : n \in 0..MaxTextLen }), max_chars \in -1..MaxChars :
          it = [text |-> text, max_chars |-> max_chars, once |-> <<>>, twice |-> <<>>]

\* _truncate_chars(text, max_chars)
TruncateOnce ==
    /\ pc = "truncate"
    /\ it' = [it EXCEPT !.once = _truncate_chars(it.text, it.max_chars)]
    /\ pc' = "truncated"
    /\ UnchangedParked

\* _truncate_chars applied to its own result
TruncateAgain ==
    /\ pc = "truncated"
    /\ it' = [it EXCEPT !.twice = _truncate_chars(it.once, it.max_chars)]
    /\ pc' = "retruncated"
    /\ UnchangedParked

NextTruncate ==
    \/ TruncateOnce
    \/ TruncateAgain

SpecTruncate == InitTruncate /\ [][NextTruncate]_vars

\* ------------------------------------- calls of build_second_brain_context
\* Names of path segments, as strings of characters.
\* DATE is datetime.now().strftime("%Y-%m-%d")
SEGMENT ==
    [ BRAIN |-> <<"b", "r", "a", "i", "n">>,
      TENANTS |-> <<"t", "e", "n", "a", "n", "t", "s">>,
      AGENTS |-> <<"a", "g", "e", "n", "t", "s">>,
      PROJECTS |-> <<"p", "r", "o", "j", "e", "c", "t", "s">>,
      GLOBAL |-> <<"g", "l", "o", "b", "a", "l">>,
      DAILY |-> <<"d", "a", "i", "l", "y">>,
      SESSIONS |-> <<"s", "e", "s", "s", "i", "o", "n", "s">>,
      MEMORY_MD |-> <<"M", "E", "M", "O", "R", "Y", ".", "m", "d">>,
      DAILY_INDEX_MD |-> <<"_", "D", "A", "I", "L", "Y", "_", "I", "N", "D", "E", "X", ".", "m", "d">>,
      SESSION_PREFIX |-> <<"s", "e", "s", "s", "i", "o", "n", "_">>,
      MD_SUFFIX |-> <<".", "m", "d">>,
      DATE |-> <<"2", "0", "2", "6", "-", "0", "1", "-", "0", "1">> ]

\* MEMORY_NAMESPACE_DEFAULTS templates after _format_template, as segments
global_memory_template(namespace) ==
    <<SEGMENT.BRAIN, SEGMENT.TENANTS, namespace.tenant_id, SEGMENT.GLOBAL, SEGMENT.MEMORY_MD>>

project_dir(namespace) ==
    <<SEGMENT.BRAIN, SEGMENT.TENANTS, namespace.tenant_id, SEGMENT.AGENTS, namespace.agent_id, SEGMENT.PROJECTS, namespace.project_id>>

daily_index_template(namespace) == project_dir(namespace) \o <<SEGMENT.DAILY, SEGMENT.DATE, SEGMENT.DAILY_INDEX_MD>>

\* Path.resolve() and the kernel's path walk: "." stays, ".." goes up
RECURSIVE resolve_from(_, _)
resolve_from(done, rest) ==
    IF rest = <<>> THEN done
    ELSE IF Head(rest) = <<".">> THEN resolve_from(done, Tail(rest))
    ELSE IF Head(rest) = <<".", ".">>
    THEN resolve_from(IF done = <<>> THEN done ELSE SubSeq(done, 1, Len(done) - 1), Tail(rest))
    ELSE resolve_from(Append(done, Head(rest)), Tail(rest))

resolve(path) == resolve_from(<<>>, path)

\* fnmatch of a file name against session_*.md
is_session_name(name) ==
    /\ Len(name) >= Len(SEGMENT.SESSION_PREFIX) + Len(SEGMENT.MD_SUFFIX)
    /\ SubSeq(name, 1, Len(SEGMENT.SESSION_PREFIX)) = SEGMENT.SESSION_PREFIX
    /\ SubSeq(name, Len(name) - Len(SEGMENT.MD_SUFFIX) + 1, Len(name)) = SEGMENT.MD_SUFFIX

basename(path) == path[Len(path)]

\* a file of the tree is [path, mtime, lines]; mtimes are distinct
RECURSIVE newest_first(_)
newest_first(files) ==
    IF files = {} THEN <<>>
    ELSE LET newest == CHOOSE f \in files : \A g \in files : g.mtime <= f.mtime
         IN  <<newest>> \o newest_first(files \ {newest})

\* lines 515-521: glob of session_glob_template (a directory and the pattern
\* session_*.md), sort by mtime, newest first, keep max_sessions
session_paths(tree, namespace, max_sessions) ==
    LET session_glob_dir == project_dir(namespace) \o <<SEGMENT.SESSIONS>>
        matches == { f \in tree : /\ SubSeq(f.path, 1, Len(f.path) - 1) = resolve(session_glob_dir)
                                  /\ is_session_name(basename(f.path)) }
    IN  slice_head(newest_first(matches), max_sessions)

\* _safe_read_text(path).splitlines(): no lines for a missing file
read_lines(tree, path) ==
    IF \E f \in tree : f.path = resolve(path)
    THEN (CHOOSE f \in tree : f.path = resolve(path)).lines
    ELSE <<>>

\* re.search of the priority pattern; of its alternatives only #p0 can be
\* spelled with the characters of the lines used here
RECURSIVE contains(_, _)
contains(line, word) ==
    IF Len(line) < Len(word) THEN FALSE
    ELSE IF SubSeq(line, 1, Len(word)) = word THEN TRUE
    ELSE contains(Tail(line), word)

is_priority(line) == contains([i \in 1..Len(line) |-> lower(line[i])], <<"#", "p", "0">>)

RECURSIVE join(_, _)
join(parts, sep) ==
    IF parts = <<>> THEN <<>>
    ELSE IF Len(parts) = 1 THEN parts[1]
    ELSE parts[1] \o sep \o join(Tail(parts), sep)

_extract_priority_lines(text, max_lines) ==
    LET lines == SelectSeq([i \in 1..Len(text) |-> rstrip(text[i])], LAMBDA l : strip(l) # <<>>)
        tagged == SelectSeq(lines, is_priority)
        selected == IF tagged # <<>> THEN slice_head(tagged, max_lines)
                    ELSE slice_head(lines, max_lines \div 2)
                         \o slice_tail(lines, max_lines - max_lines \div 2)
    IN  IF lines = <<>> \/ max_lines <= 0 THEN <<>>
        ELSE join(slice_head(selected, max_lines), <<"\n">>)

section(header, excerpt) == header \o <<"\n">> \o excerpt

RECURSIVE session_sections(_, _)
session_sections(files, max_lines) ==
    IF files = <<>> THEN <<>>
    ELSE LET excerpt == _extract_priority_lines(Head(files).lines, max_lines)
         IN  (IF excerpt = <<>> THEN <<>>
              ELSE << section(<<"[", "S", "E", "S", "S", "I", "O", "N", ":">> \o basename(Head(files).path) \o <<"]">>, excerpt) >>)
             \o session_sections(Tail(files), max_lines)

\* build_second_brain_context with config.enabled and _namespace_enabled
\* true, include_memory_md true and the templates of MEMORY_NAMESPACE_DEFAULTS
build_second_brain_context(tree, config, namespace) ==
    LET namespace_section ==
            section(<<"[", "N", "A", "M", "E", "S", "P", "A", "C", "E", "]">>,
                    <<"t", "e", "n", "a", "n", "t", "_", "i", "d", "=">> \o namespace.tenant_id
                    \o <<" ", "a", "g", "e", "n", "t", "_", "i", "d", "=">> \o namespace.agent_id
                    \o <<" ", "p", "r", "o", "j", "e", "c", "t", "_", "i", "d", "=">> \o namespace.project_id)
        memory_excerpt == _extract_priority_lines(read_lines(tree, global_memory_template(namespace)), 12)
        daily_excerpt == _extract_priority_lines(read_lines(tree, daily_index_template(namespace)),
                                                 config.max_lines_per_file)
        sections == <<namespace_section>>
                    \o (IF memory_excerpt = <<>> THEN <<>>
                        ELSE << section(<<"[", "M", "E", "M", "O", "R", "Y", "]">>, memory_excerpt) >>)
                    \o (IF daily_excerpt = <<>> THEN <<>>
                        ELSE << section(<<"[", "D", "A", "I", "L", "Y", "_", "I", "N", "D", "E", "X", "]">>, daily_excerpt) >>)
                    \o session_sections(session_paths(tree, namespace, config.max_sessions),
                                        config.max_lines_per_file)
    IN  _truncate_chars(strip(join(sections, <<"\n", "\n">>)), config.max_chars)

memory_path(project) ==
    project_dir([tenant_id |-> DEFAULT_ID, agent_id |-> MAIN_ID, project_id |-> project])

under(path, dir) == Len(path) > Len(dir) /\ SubSeq(path, 1, Len(dir)) = dir

\* the tree without what is stored under the memory path of a project
without_project(tree, project) == { f \in tree : ~under(f.path, memory_path(project)) }

\* The files that may be on disk: the memory of the tenant, and files of
\* the projects p-a, pb, daily and sessions of agent main.
\* project_id as STATUS.json or a trigger may hold it before line 1028
InitContext ==
    LET MemoryFiles ==
            { [path |-> <<SEGMENT.BRAIN, SEGMENT.TENANTS, DEFAULT_ID, SEGMENT.GLOBAL, SEGMENT.MEMORY_MD>>, mtime |-> 1,
               lines |-> << <<"#", "p", "0", " ", "g">> >>],
              [path |-> memory_path(NORM_PROJECT) \o <<SEGMENT.DAILY, SEGMENT.DATE, SEGMENT.DAILY_INDEX_MD>>, mtime |-> 2,
               lines |-> << <<"#", "p", "0", " ", "a">>, <<"a", " ">> >>],
              [path |-> memory_path(NORM_PROJECT) \o <<SEGMENT.SESSIONS, <<"s", "e", "s", "s", "i", "o", "n", "_", "a", ".", "m", "d">>>>, mtime |-> 3,
               lines |-> << <<"a">>, <<" ">>, <<"a", "a">> >>],
              [path |-> memory_path(OTHER_PROJECT) \o <<SEGMENT.DAILY, SEGMENT.DATE, SEGMENT.DAILY_INDEX_MD>>, mtime |-> 4,
               lines |-> << <<"#", "p", "0", " ", "b">> >>],
              [path |-> memory_path(OTHER_PROJECT) \o <<SEGMENT.SESSIONS, <<"s", "e", "s", "s", "i", "o", "n", "_", "b", ".", "m", "d">>>>, mtime |-> 5,
               lines |-> << <<"b">> >>],
              [path |-> memory_path(SEGMENT.DAILY) \o <<SEGMENT.DATE, SEGMENT.DAILY_INDEX_MD>>, mtime |-> 6,
               lines |-> << <<"#", "p", "0", " ", "d">> >>],
              [path |-> memory_path(SEGMENT.SESSIONS) \o << <<"s", "e", "s", "s", "i", "o", "n", "_", "s", ".", "m", "d">>>>, mtime |-> 7,
               lines |-> << <<"#", "p", "0", " ", "s">> >>] }
    IN
    /\ Parked
    /\ pc = "context"
    /\ \E project_id \in {NoStr, RAW_PROJECT, OTHER_PROJECT, <<".">>, <<".", ".">>},
          tree \in SUBSET MemoryFiles,
          other \in {NORM_PROJECT, OTHER_PROJECT, SEGMENT.DAILY, SEGMENT.SESSIONS},
          config \in [max_chars : {MaxChars * 5, 400}, max_sessions : {1, 2}, max_lines_per_file : {8}] :
          it = [status |-> [EmptyStatus EXCEPT !.project_id = project_id],
                config |-> config, tree |-> tree, other |-> other,
                namespace |-> MEMORY_NAMESPACE_DEFAULTS, context |-> <<>>, context_without |-> <<>>,
                excerpts |-> {}]

\* line 1028
ResolveNamespace ==
    /\ pc = "context"
    /\ it' = [it EXCEPT !.namespace = resolve_runtime_namespace(it.status, MEMORY_NAMESPACE_DEFAULTS)]
    /\ pc' = "resolved"
    /\ UnchangedParked

\* line 1112, on the tree and on the tree without the other project's files
BuildContext ==
    /\ pc = "resolved"
    /\ it' = [it EXCEPT !.context = build_second_brain_context(it.tree, it.config, it.namespace),
                        !.context_without =
                            build_second_brain_context(without_project(it.tree, it.other),
                                                       it.config, it.namespace)]
    /\ pc' = "built"
    /\ UnchangedParked

\* _extract_priority_lines on the lines of each file, for each line budget
ExtractPriorityLines ==
    /\ pc = "built"
    /\ it' = [it EXCEPT !.excerpts =
                  { [text |-> f.lines, max_lines |-> max_lines,
                     excerpt |-> _extract_priority_lines(f.lines, max_lines)] :
                      f \in it.tree, max_lines \in 0..MaxLines }]
    /\ pc' = "extracted"
    /\ UnchangedParked

NextContext ==
    \/ ResolveNamespace
    \/ BuildContext
    \/ ExtractPriorityLines

SpecContext == InitContext /\ [][NextContext]_vars

\* ------------------------------------------- calls of security_gate.py
\* Action names, as strings of characters.
AUTOPR == <<"a", "u", "t", "o", "p", "r">>
DEPLOY == <<"d", "e", "p", "l", "o", "y">>

\* A dict of approvals is a function from its keys to booleans.
DEFAULT_APPROVALS ==
    [k \in { AUTOPR,
             <<"p", "u", "b", "l", "i", "s", "h", "_", "e", "x", "t", "e", "r", "n", "a", "l">>,
             <<"s", "e", "r", "v", "i", "c", "e", "_", "r", "e", "s", "t", "a", "r", "t">> } |-> FALSE]

\* dict(a); result.update(b)
updated(a, b) ==
    [k \in (DOMAIN a) \cup (DOMAIN b) |-> IF k \in DOMAIN b THEN b[k] ELSE a[k]]

\* APPROVALS.json: absent, present but not readable (read_text raises
\* OSError), not JSON or not an object, or an object of booleans
read_approvals(file) ==
    IF file.kind = "dict" THEN updated(DEFAULT_APPROVALS, file.doc) ELSE DEFAULT_APPROVALS

\* Lines 39-42: the keys that are not blank, stripped.  The keys that reach
\* write_approvals are stripped already, so no two of them normalize to the
\* same key.
normalized(approvals) ==
    [k \in { strip(key) : key \in { x \in DOMAIN approvals : strip(x) # <<>> } } |->
        approvals[CHOOSE key \in DOMAIN approvals : strip(key) = k]]

write_approvals_defaults_win(approvals) ==
    [kind |-> "dict", doc |-> updated(normalized(approvals), DEFAULT_APPROVALS)]

write_approvals(approvals) ==
    [kind |-> "dict", doc |-> updated(DEFAULT_APPROVALS, normalized(approvals))]

\* Lines 49-53: the file written, and the dict returned
set_approval(file, action, allow) ==
    LET approvals == updated(read_approvals(file), [k \in {strip(action)} |-> allow])
    IN  <<write_approvals(approvals), approvals>>

\* approvals.get(action.strip(), False)
is_action_approved(file, action) ==
    LET approvals == read_approvals(file)
    IN  IF strip(action) \in DOMAIN approvals THEN approvals[strip(action)] ELSE FALSE

\* --action: a default action, another one, the same with blanks around it,
\* a blank name and the empty name
ActionInputs == {AUTOPR, DEPLOY, <<" ">> \o AUTOPR, DEPLOY \o <<" ">>, <<" ">>, <<>>}

InitApprovals ==
    /\ Parked
    /\ pc = "approvals"
    /\ \E file \in { [kind |-> k, doc |-> DEFAULT_APPROVALS] :
                      k \in {"absent", "unreadable", "invalid"} } :
          it = [file |-> file, before |-> file, calls |-> <<>>, returned |-> DEFAULT_APPROVALS,
                raised |-> FALSE, asked |-> <<>>, answer |-> FALSE]

\* set_approval(path, action, allow); writing over a file that cannot be
\* read either succeeds or raises OSError, which leaves the file as it is
SetApproval(allow) ==
    /\ pc \in {"approvals", "set", "asked"}
    /\ Len(it.calls) < MaxCalls
    /\ \E action \in ActionInputs :
       \E writable \in (IF it.file.kind = "unreadable" THEN BOOLEAN ELSE {TRUE}) :
          LET done == set_approval(it.file, action, allow)
          IN  IF writable
              THEN /\ it' = [it EXCEPT !.file = done[1], !.before = it.file,
                                       !.calls = Append(@, <<action, allow>>),
                                       !.returned = done[2], !.raised = FALSE]
                   /\ pc' = "set"
              ELSE /\ it' = [it EXCEPT !.raised = TRUE]
                   /\ pc' = "approvals"
    /\ UnchangedParked

\* main: the command `approve`
Approve == SetApproval(TRUE)

\* main: the command `revoke`
Revoke == SetApproval(FALSE)

\* is_action_approved(path, action)
IsActionApproved ==
    /\ pc \in {"approvals", "set", "asked"}
    /\ \E action \in ActionInputs :
          it' = [it EXCEPT !.asked = action, !.answer = is_action_approved(it.file, action)]
    /\ pc' = "asked"
    /\ UnchangedParked

NextApprovals ==
    \/ Approve
    \/ Revoke
    \/ IsActionApproved

SpecApprovals == InitApprovals /\ [][NextApprovals]_vars

\* ------------------------------- calls of evaluate_handoff_convergence
\* Agent names, as strings of characters.
PLANNER == <<"p", "l", "a", "n", "n", "e", "r">>
CODER == <<"c", "o", "d", "e", "r">>

\* from_agent and to_agent of a record; a name may come with blanks around it
Hops == { <<PLANNER, CODER>>, <<CODER, PLANNER>>, <<<<" ">> \o CODER, PLANNER>>,
          <<CODER, <<"r", "e", "s", "e", "a", "r", "c", "h", "e", "r">>>> }

ping_pong_reached(reversals, ping_pong_limit) == reversals >= ping_pong_limit

\* Line 193
ping_pong_exceeded(reversals, ping_pong_limit) == reversals > ping_pong_limit

\* Lines 187-192: a record hands back to where the previous one came from
is_reversal(prev, item) ==
    /\ strip(prev.from_agent) = strip(item.to_agent)
    /\ strip(prev.to_agent) = strip(item.from_agent)

\* Lines 176-196: the loop from `index` (counted from 1) on; "ping-pong" when
\* it returns from inside, and seen_done when it runs to its end
RECURSIVE scan_history(_, _, _, _, _)
scan_history(history, index, reversals, seen_done, ping_pong_limit) ==
    IF index > Len(history) THEN IF seen_done THEN "done" ELSE "open"
    ELSE LET item == history[index]
             done == seen_done \/ item.status = "done"
         IN  IF index = 1
             THEN scan_history(history, index + 1, reversals, done, ping_pong_limit)
             ELSE IF is_reversal(history[index - 1], item)
             THEN IF ping_pong_exceeded(reversals + 1, ping_pong_limit)
                  THEN "ping-pong"
                  ELSE scan_history(history, index + 1, reversals + 1, done, ping_pong_limit)
             ELSE scan_history(history, index + 1, 0, done, ping_pong_limit)

evaluate_handoff_convergence(history, max_hops, ping_pong_limit) ==
    IF history = <<>> THEN <<FALSE, "empty handoff history">>
    ELSE LET scanned == scan_history(history, 1, 0, FALSE, ping_pong_limit)
         IN  IF scanned = "ping-pong" THEN <<FALSE, "ping-pong limit exceeded">>
             ELSE IF scanned = "done" THEN <<TRUE, "handoff converged with done status">>
             ELSE IF Len(history) > max_hops
             THEN <<FALSE, "max hops exceeded without done status">>
             ELSE <<TRUE, "handoff still within hop budget">>

\* max_hops: budgets the longest histories exceed, meet and stay within
\* Lines 39-40
_is_non_empty_text(value) == strip(value) # <<>>

\* Lines 67-117, for a payload whose values have the types of the template:
\* the list of errors.  created_at is ISO-8601 when datetime.fromisoformat
\* parses it, which it does for what now_iso() returns.
validate_handoff(payload) ==
    LET REQUIRED_FIELDS == {"version", "handoff_id", "from_agent", "to_agent", "objective",
                            "inputs", "deliverables", "acceptance_criteria", "risks",
                            "rollback_plan", "priority", "status", "created_at"}
        missing == { field \in REQUIRED_FIELDS : field \notin DOMAIN payload }
        error(wrong, message) == IF wrong THEN <<message>> ELSE <<>>
        _validate_str_list(name, value) ==
            IF value = <<>> THEN <<name \o " must be a non-empty string list">>
            ELSE error(\E i \in 1..Len(value) : ~_is_non_empty_text(value[i]),
                       name \o " must contain non-empty strings")
    IN  IF missing # {} THEN <<"missing required field">>
        ELSE error(payload.version # "1.0", "version must be '1.0'")
             \o error(~_is_non_empty_text(payload.handoff_id), "handoff_id must be a non-empty string")
             \o error(~_is_non_empty_text(payload.from_agent), "from_agent must be a non-empty string")
             \o error(~_is_non_empty_text(payload.to_agent), "to_agent must be a non-empty string")
             \o error(_is_non_empty_text(payload.from_agent) /\ payload.from_agent = payload.to_agent,
                      "from_agent and to_agent must be different")
             \o error(~_is_non_empty_text(payload.objective), "objective must be a non-empty string")
             \o _validate_str_list("inputs", payload.inputs)
             \o _validate_str_list("deliverables", payload.deliverables)
             \o _validate_str_list("acceptance_criteria", payload.acceptance_criteria)
             \o _validate_str_list("risks", payload.risks)
             \o error(~_is_non_empty_text(payload.rollback_plan), "rollback_plan must be a non-empty string")
             \o error(payload.priority \notin {"low", "medium", "high", "critical"}, "priority must be one of")
             \o error(payload.status \notin {"planned", "in_progress", "done", "blocked"},
                      "status must be one of")
             \o error(payload.created_at # "now_iso()", "created_at must be ISO-8601 datetime")
             \o error(\E i \in 1..Len(payload.tags) : ~_is_non_empty_text(payload.tags[i]),
                      "tags must be a string list when provided")

build_handoff_template_as_given(from_agent, to_agent, objective) ==
    [version |-> "1.0", handoff_id |-> <<"h", "a", "n", "d", "o", "f", "f", "-", "0">>,
     from_agent |-> strip(from_agent), to_agent |-> strip(to_agent), objective |-> strip(objective),
     inputs |-> << <<"t", "a", "s", "k", " ", "b", "r", "i", "e", "f">> >>,
     deliverables |-> << <<"s", "u", "m", "m", "a", "r", "y">>, <<"r", "e", "s", "u", "l", "t">> >>,
     acceptance_criteria |-> << <<"g", "a", "t", "e", "s">>, <<"s", "c", "o", "p", "e">> >>,
     risks |-> << <<"m", "i", "s", "m", "a", "t", "c", "h">>, <<"d", "r", "i", "f", "t">> >>,
     rollback_plan |-> <<"r", "e", "v", "e", "r", "t">>,
     priority |-> "medium", status |-> "planned", created_at |-> "now_iso()",
     tags |-> << <<"h", "a", "n", "d", "o", "f", "f">>, <<"s", "t", "a", "n", "d", "a", "r", "d", "i", "z", "e", "d">> >>]

\* Lines 120-137: `x.strip() or default`.  The texts of the lists and of the
\* rollback plan are shortened; metadata is an empty object.
build_handoff_template(from_agent, to_agent, objective) ==
    LET or(text, default) == IF strip(text) = <<>> THEN default ELSE strip(text)
    IN  [build_handoff_template_as_given(from_agent, to_agent, objective) EXCEPT
            !.from_agent = or(from_agent, <<"r", "e", "q", "u", "e", "s", "t", "e", "r">>),
            !.to_agent = or(to_agent, <<"m", "a", "i", "n">>),
            !.objective = or(objective, <<"T", "B", "D">>)]

InitHandoff ==
    /\ Parked
    /\ pc = "handoff"
    /\ \E max_hops \in {1, MaxHistory - 1, MaxHistory}, ping_pong_limit \in 0..MaxPingPong :
          it = [history |-> <<>>, max_hops |-> max_hops, ping_pong_limit |-> ping_pong_limit,
                result |-> <<FALSE, "">>, asked |-> <<>>, template |-> [version |-> ""],
                errors |-> <<>>]

\* one more handoff is made
RecordHandoff ==
    /\ pc = "handoff"
    /\ Len(it.history) < MaxHistory
    /\ \E hop \in Hops, status \in {"in_progress", "done"} :
          it' = [it EXCEPT !.history = Append(@, [from_agent |-> hop[1], to_agent |-> hop[2],
                                                  status |-> status])]
    /\ pc' = "handoff"
    /\ UnchangedParked

\* evaluate_handoff_convergence(history, max_hops, ping_pong_limit)
EvaluateHandoff ==
    /\ pc = "handoff"
    /\ it' = [it EXCEPT !.result =
                  evaluate_handoff_convergence(it.history, it.max_hops, it.ping_pong_limit)]
    /\ pc' = "evaluated"
    /\ UnchangedParked

\* build_handoff_template(from_agent, to_agent, objective), for names and
\* objectives that are empty, blank, padded or plain
BuildTemplate ==
    /\ pc = "handoff"
    /\ it.history = <<>>
    /\ \E from_agent, to_agent \in {<<>>, <<" ">>, PLANNER, CODER, <<" ">> \o CODER, MAIN_ID,
                                     <<"r", "e", "q", "u", "e", "s", "t", "e", "r">>},
          objective \in {<<>>, <<" ">>, <<"s", "h", "i", "p">>} :
          it' = [it EXCEPT !.asked = <<from_agent, to_agent, objective>>,
                           !.template = build_handoff_template(from_agent, to_agent, objective)]
    /\ pc' = "template"
    /\ UnchangedParked

\* validate_handoff(payload)
ValidateHandoff ==
    /\ pc = "template"
    /\ it' = [it EXCEPT !.errors = validate_handoff(it.template)]
    /\ pc' = "validated"
    /\ UnchangedParked

NextHandoff ==
    \/ RecordHandoff
    \/ EvaluateHandoff
    \/ BuildTemplate
    \/ ValidateHandoff

SpecHandoff == InitHandoff /\ [][NextHandoff]_vars

\* ================================================================== claims
Persisted == load_status(status_file)

LastRecord == log[Len(log)]

\* the iteration is over: the loop has returned or is in time.sleep
IterationOver == pc \in {"returned", "sleep"}

\* a step of loop(), as opposed to a run of trigger_supervisor.py
LoopStep == trig'.requests = trig.requests

\* trigger_supervisor.py did not run during the current iteration
Undisturbed == trig.last.outcome = "none" \/ trig.last.iters # iters

\* C1 -- Terminal halt.  An iteration that finds no applicable trigger and
\* reads state done or blocked returns at once: the persisted state and
\* current_step stay as they were, nothing is appended to the log, and the
\* iteration makes no agent, fallback, verification, checkpoint or autopr
\* call and does not sleep.
C1_TerminalHalt ==
    [][ ( /\ LoopStep
          /\ pc = "iter_start"
          /\ ~payload_truthy(load_trigger_payload(trigger_file))
          /\ load_status(status_file).state \in {"done", "blocked"} )
        => ( /\ pc' = "returned"
             /\ load_status(status_file').state = load_status(status_file).state
             /\ load_status(status_file').current_step = load_status(status_file).current_step
             /\ log' = log
             /\ checkpoints' = checkpoints
             /\ attempts' = attempts
             /\ it'.primary_calls = 0 /\ it'.fallback_calls = 0
             /\ ~it'.tests_ran /\ ~it'.checkpointed /\ it'.autopr_calls = 0
             /\ ~it'.slept /\ it'.records = 0 ) ]_vars

C1_Witness ==
    /\ pc = "returned"
    /\ it.branch = "terminal"
    /\ ~it.triggered
    /\ Persisted.state = "blocked"
    /\ iters > 1

C3_AbsentStepMeansDone ==
    [][ ( /\ pc = "iter_start"
          /\ it'.selected_step # 0
          /\ ~\E i \in 1..Len(blueprint) :
                 blueprint[i].isdict /\ blueprint[i].id = it'.selected_step )
        => ( /\ pc' = "returned"
             /\ status_file'.kind = "dict"
             /\ load_status(status_file').state = "done"
             /\ load_status(status_file').current_step = it'.selected_step
             /\ load_status(status_file').needs_human = (~it'.triggered /\ load_status(status_file).needs_human)
             /\ Len(log') = it'.log_mark
             /\ attempts' = attempts
             /\ it'.primary_calls = 0 /\ it'.fallback_calls = 0 /\ ~it'.tests_ran ) ]_vars

C3_Witness ==
    /\ pc = "returned"
    /\ it.branch = "no_more_steps"
    /\ Persisted.state = "done"
    /\ it.start_state # "done"

\* C4 -- Attempt budget.  With max_attempts = M > 0 the session makes at
\* most M primary (agent or host-sync) invocations.  An iteration that
\* starts with M invocations made and a non-terminal state persists
\* state=blocked, needs_human=true, a non-empty human_question and
\* last_error_sig=max_attempts, appends exactly one outcome record, which
\* carries the tag max_attempts, and returns without an invocation.
C4_AttemptBudget ==
    [][ /\ (cfg.max_attempts > 0 => attempts' <= cfg.max_attempts)
        /\ (attempts' # attempts => (pc = "agent" /\ attempts' = attempts + 1 /\ it'.primary_calls = 1))
        /\ ( /\ pc = "iter_start"
             /\ cfg.max_attempts > 0
             /\ attempts >= cfg.max_attempts
             /\ it'.start_state \notin {"done", "blocked"} )
           => ( /\ pc' = "returned"
                /\ load_status(status_file').state = "blocked"
                /\ load_status(status_file').needs_human
                /\ load_status(status_file').human_question # ""
                /\ load_status(status_file').last_error_sig = "max_attempts"
                /\ Len(log') = Len(log) + (IF it'.triggered THEN 2 ELSE 1)
                /\ HasTag(log'[Len(log')], "max_attempts")
                /\ it'.primary_calls = 0 ) ]_vars

C4_Witness ==
    /\ pc = "returned"
    /\ it.branch = "max_attempts"
    /\ attempts = cfg.max_attempts
    /\ attempts = MaxAttemptsCfg
    /\ Persisted.last_error_sig = "max_attempts"

\* C5 -- Single-shot fallback.  After the primary call the fallback is
\* issued exactly when the step is not a host-sync step, the primary exit
\* code is 0 or 124 and both mtimes equal their snapshots; it is issued from
\* nowhere else, once, and is followed by classification, so an iteration
\* makes at most two agent invocations.
C5_SingleShotFallback ==
    [][ LoopStep =>
        /\ (pc = "agent")
           => ( (pc' = "fallback")
                <=> ( /\ ~it.host_sync_step
                      /\ it'.primary_rc \in {0, 124}
                      /\ it'.plan = "eq"
                      /\ it'.result = "eq" ) )
        /\ (pc' = "fallback" => pc = "agent")
        /\ (pc = "fallback" => (pc' = "classify" /\ it'.fallback_calls = 1))
        /\ (it'.fallback_calls > it.fallback_calls => pc = "fallback")
        /\ it'.primary_calls <= 1
        /\ it'.primary_calls + it'.fallback_calls <= 2 ]_vars

C5_Witness ==
    /\ pc = "classify"
    /\ it.fallback_calls = 1
    /\ it.primary_rc = 124
    /\ it.fallback_rc = 1

\* outcome records the iteration appended after the trigger record
OutcomeRecords == Len(log) - it.log_mark

\* the loop did not touch current_step after the agent returned
StepUntouched == Persisted.current_step = it.reloaded_step

\* scenario 2: run-once, the primary call timed out, the fallback ran, and
\* both mtimes still equal their snapshots
C6_Scenario ==
    /\ pc = "returned"
    /\ Undisturbed
    /\ cfg.run_once
    /\ it.primary_rc = 124
    /\ it.fallback_calls = 1
    /\ it.plan = "eq"
    /\ it.result = "eq"

C7_TimeoutWithProgress ==
    ( /\ IterationOver
      /\ Undisturbed
      /\ it.codex_rc = 124
      /\ ~it.host_sync_step
      /\ (it.plan = "gt" \/ it.result = "gt") )
    => ( /\ Persisted.state = "idle"
         /\ ~Persisted.needs_human
         /\ Persisted.human_question = ""
         /\ Persisted.last_error_sig = "codex_timeout_progress"
         /\ OutcomeRecords = 1
         /\ HasTag(LastRecord, "codex_timeout_progress")
         /\ ~it.tests_ran /\ ~it.checkpointed /\ it.autopr_calls = 0
         /\ StepUntouched
         /\ pc = (IF cfg.run_once THEN "returned" ELSE "sleep") )

C7_Witness ==
    /\ pc = "sleep"
    /\ it.codex_rc = 124
    /\ it.plan = "eq"
    /\ it.result = "gt"
    /\ Persisted.last_error_sig = "codex_timeout_progress"

\* an iteration ended whose classified exit code is a generic failure
C8_Scenario ==
    /\ IterationOver
    /\ Undisturbed
    /\ it.primary_calls = 1
    /\ it.codex_rc \notin {0, 124}

\* C8 as stated -- such an iteration always ends blocked with codex_failed
\* (sync_failed on a host-sync step), in both modes, whatever the mtimes.
C8_Original ==
    C8_Scenario
    => ( /\ pc = "returned"
         /\ Persisted.state = "blocked"
         /\ Persisted.needs_human
         /\ Persisted.last_error_sig = (IF it.host_sync_step THEN "sync_failed" ELSE "codex_failed")
         /\ HasTag(LastRecord, IF it.host_sync_step THEN "sync_failed" ELSE "codex_failed") )

\* C8 -- Agent failure blocks, amended.  In run-once mode the iteration
\* ends blocked with needs_human, a question and one outcome record, tagged
\* sync_failed on a host-sync step, codex_no_progress on an agent step whose
\* plan and result mtimes both equal their snapshots, and codex_failed
\* otherwise, and the session stops.  In loop mode the loop appends nothing,
\* runs no verification and sleeps before the next attempt.
C8_AgentFailure ==
    C8_Scenario
    => IF cfg.run_once
       THEN LET sig == IF it.host_sync_step THEN "sync_failed"
                       ELSE IF it.plan = "eq" /\ it.result = "eq" THEN "codex_no_progress"
                       ELSE "codex_failed"
            IN  /\ pc = "returned"
                /\ Persisted.state = "blocked"
                /\ Persisted.needs_human
                /\ Persisted.human_question # ""
                /\ Persisted.last_error_sig = sig
                /\ OutcomeRecords = 1
                /\ HasTag(LastRecord, sig)
       ELSE /\ pc = "sleep"
            /\ OutcomeRecords = 0
            /\ ~it.tests_ran

C8_Witness ==
    /\ C8_Scenario
    /\ cfg.run_once
    /\ it.host_sync_step
    /\ Persisted.last_error_sig = "sync_failed"

\* C9 as stated -- every iteration that invoked the agent has appended an
\* outcome record by the time the loop sleeps or returns.
C9_Original ==
    (IterationOver /\ it.primary_calls >= 1) => OutcomeRecords >= 1

\* C9 -- Outcome recorded, amended.  An iteration that invoked the agent has
\* appended an outcome record when the loop sleeps or returns exactly if the
\* session is run-once, or verification ran, or the iteration ended in
\* timeout with progress; in loop mode an iteration that ended in timeout
\* without progress, no progress or agent failure appended none.
C9_OutcomeRecorded ==
    (IterationOver /\ it.primary_calls >= 1)
    => ( (OutcomeRecords >= 1)
         <=> ( \/ cfg.run_once
               \/ it.tests_ran
               \/ (it.codex_rc = 124 /\ ~it.host_sync_step /\ (it.plan = "gt" \/ it.result = "gt")) ) )

C9_Witness ==
    /\ pc = "returned"
    /\ it.primary_calls = 1
    /\ it.codex_rc = 1
    /\ cfg.run_tests_py
    /\ HasTag(LastRecord, "run_tests_failed")
    /\ OutcomeRecords = 1

\* scenario 1: first iteration, no status file, no trigger applied, the
\* agent exited 0 with progress, the first verification run passed
C10_Scenario ==
    /\ IterationOver
    /\ Undisturbed
    /\ iters = 1
    /\ ~it.status_existed
    /\ ~it.triggered
    /\ it.codex_rc = 0
    /\ (it.plan = "gt" \/ it.result = "gt")
    /\ it.tests_ran
    /\ it.first_test_rc = 0

C11_BoundedRetry ==
    it.tests_ran
    => LET runs == it.test_runs
           n == Len(runs)
       IN  /\ n >= 1
           /\ n <= cfg.qa_retries + 1
           /\ \A k \in 1..(n - 1) : runs[k] # 0
           /\ (runs[n] # 0 => n = cfg.qa_retries + 1)
           /\ it.test_rc = runs[n]
           /\ it.test_attempts = n
           /\ Persisted.last_test_ok = (runs[n] = 0)
           /\ Persisted.last_test_attempts = n

\* scenario 3: fail, fail, pass with three retries allowed
C11_Witness ==
    /\ pc = "returned"
    /\ cfg.qa_retries >= 3
    /\ it.test_runs = <<1, 1, 0>>
    /\ Persisted.last_test_ok
    /\ Persisted.last_test_attempts = 3

\* C12 -- Trigger application.  A pass that loads a trigger payload saves,
\* before the terminal check, a status with state=idle, needs_human=false
\* and an empty human_question; current_step is 1 and checkpoint_id empty
\* unless reset_step is the boolean false, in which case both are as found;
\* an identifier the payload carries replaces the stored one in normalized
\* form, one it does not carry keeps the stored value (or the default); the
\* record `triggered` is the first record the pass appends; and the pass
\* goes past the terminal check whatever the state was.
C12_TriggerApplication ==
    [][ (pc = "iter_start" /\ pc' # "iter_start" /\ trigger_file.kind = "dict")
        => LET before == load_status(status_file)
               saved == it'.trigger_status
               kept(current, default) == IF current = NoStr THEN default ELSE current
           IN  /\ it'.triggered
               /\ saved.state = "idle"
               /\ ~saved.needs_human
               /\ saved.human_question = ""
               /\ IF trigger_file.reset_step = "false"
                  THEN /\ saved.current_step = before.current_step
                       /\ saved.checkpoint_id = before.checkpoint_id
                  ELSE /\ saved.current_step = 1
                       /\ saved.checkpoint_id = <<>>
               /\ saved.project_id =
                     (CASE trigger_file.project_id = NoStr -> kept(before.project_id, DEFAULT_ID)
                        [] trigger_file.project_id = RAW_PROJECT -> NORM_PROJECT
                        [] OTHER -> trigger_file.project_id)
               /\ trigger_file.tenant_id = NoStr => saved.tenant_id = kept(before.tenant_id, DEFAULT_ID)
               /\ trigger_file.agent_id = NoStr => saved.agent_id = kept(before.agent_id, MAIN_ID)
               /\ Len(log') > Len(log)
               /\ log'[Len(log) + 1] = [status |-> <<"triggered">>]
               /\ SubSeq(log', 1, Len(log)) = log
               /\ it'.start_state = "idle"
               /\ it'.branch # "terminal" ]_vars

\* a run triggered with a non-boolean reset_step and a project override is
\* sent back to step 1 and reaches the agent call
C12_Witness ==
    /\ pc = "agent"
    /\ it.triggered
    /\ it.trigger_status.state = "idle"
    /\ it.trigger_status.current_step = 1
    /\ it.trigger_status.project_id = NORM_PROJECT
    /\ Persisted.state = "running"
    /\ log = << [status |-> <<"triggered">>] >>

\* the records `triggered` in a log
TriggeredRecords(lg) == Cardinality({ i \in 1..Len(lg) : lg[i].status = <<"triggered">> })

C14_DedupAfterConsumption ==
    [][ ( /\ ~LoopStep
          /\ trig.consumed.kind = "dict"
          /\ trig.consumed.fingerprint # NoStr
          /\ trigger_file = AbsentTrigger
          /\ cfg.dedup_seconds > 0
          /\ trig'.last.fingerprint = trig.consumed.fingerprint
          /\ trig'.last.at - trig.consumed.requested_at_epoch <= cfg.dedup_seconds )
        => ( /\ trig'.last.outcome = "skipped"
             /\ trigger_file' = AbsentTrigger ) ]_vars

\* C15 -- Dedup decision.  A run of trigger_supervisor.py drops its request
\* exactly when the window is positive, TRIGGER.json exists and holds a JSON
\* object whose fingerprint is a string equal to the new fingerprint and
\* whose requested_at_epoch is an integer at most `window` seconds before
\* the clock reading; it queues the request when the window has elapsed,
\* the fingerprint differs, or the window is 0.  A dropped request leaves
\* TRIGGER.json as it was, a queued one replaces it.
C15_DedupDecision ==
    [][ ~LoopStep
        => /\ (trig'.last.outcome = "skipped")
              <=> ( /\ cfg.dedup_seconds > 0
                    /\ trigger_file.kind = "dict"
                    /\ trigger_file.fingerprint # NoStr
                    /\ trigger_file.fingerprint = trig'.last.fingerprint
                    /\ trigger_file.requested_at_epoch >= 0
                    /\ trig'.last.at - trigger_file.requested_at_epoch <= cfg.dedup_seconds )
           /\ (trig'.last.outcome = "skipped") => (trigger_file' = trigger_file)
           /\ (trig'.last.outcome # "skipped")
              => ( /\ trig'.last.outcome = "queued"
                   /\ trigger_file'.kind = "dict"
                   /\ trigger_file'.fingerprint = trig'.last.fingerprint
                   /\ trigger_file'.requested_at_epoch = trig'.last.at ) ]_vars

\* a duplicate arriving exactly at the end of the window is dropped
C15_Witness ==
    /\ trig.last.outcome = "skipped"
    /\ trigger_file.kind = "dict"
    /\ trig.last.at = trigger_file.requested_at_epoch + DEDUP_SECONDS

\* the number of request fields in which two requests differ
FieldsDiffering(left, right) ==
    Cardinality({ k \in {"reason", "task", "reset_step", "tenant_id", "agent_id", "project_id",
                         "handoff_id"} : left[k] # right[k] })

\* C16 -- Trigger fingerprint.  The fingerprint of a request is a function
\* of (reason, task, reset flag, tenant_id, agent_id, project_id, handoff
\* id): it is computed for every such request, equal requests have equal
\* fingerprints, and two requests that differ in exactly one field have
\* different fingerprints.
C16_Fingerprint ==
    pc = "fingerprinted"
    => ( /\ it.left_fp.raised = ""
         /\ it.right_fp.raised = ""
         /\ (it.left = it.right => it.left_fp.value = it.right_fp.value)
         /\ (FieldsDiffering(it.left, it.right) = 1 => it.left_fp.value # it.right_fp.value) )

\* C17 -- Append-only outcome log.  Every step of the loop leaves the lines
\* already in the run log as they are and in place, and adds one whole line
\* per record it writes (the trigger record included); a run of
\* trigger_supervisor.py does not touch the log.  So the log always holds
\* the records written so far, in the order they were written.
C17_AppendOnlyLog ==
    [][ /\ Len(log') >= Len(log)
        /\ SubSeq(log', 1, Len(log)) = log
        /\ \A i \in (Len(log) + 1)..Len(log') : DOMAIN log'[i] = {"status"} /\ Len(log'[i].status) >= 1
        /\ LoopStep => (Len(log') - Len(log) = IF pc = "sleep" THEN 0 ELSE it'.records - it.records)
        /\ ~LoopStep => log' = log ]_vars

C17_Witness ==
    /\ iters >= 2
    /\ IterationOver
    /\ Len(log) >= 3
    /\ log[1] = [status |-> <<"triggered">>]
    /\ HasTag(log[2], "codex_ok")
    /\ HasTag(log[3], "codex_ok")

\* the autopr collaborator is being or has been invoked in this iteration
AutoprInvoked == pc = "autopr" \/ it.autopr_calls >= 1

\* the conditions of lines 1309-1312
AutoprGate ==
    /\ it.tests_ran
    /\ it.test_rc = 0
    /\ it.status.state = "done"
    /\ cfg.autopr_enabled
    /\ it.codex_rc = 0
    /\ it.branch \in {"tests_ok", "autopr_failed"}

\* C18 as stated -- autopr is invoked only behind the gate, and never while
\* a step of the blueprint remains at the persisted current_step.
C18_Original ==
    AutoprInvoked
    => ( /\ AutoprGate
         /\ get_step(blueprint, it.status.current_step) = NoStep )

\* C18 -- Delivery gating, amended.  autopr is invoked in an iteration only
\* if the agent exited 0, verification passed in that iteration, the state
\* re-read after recording is done and autopr is enabled, and at most once;
\* so never in an iteration that ends in timeout, no progress, agent
\* failure or failed verification.  A step of the blueprint can remain at
\* the persisted current_step only when the agent itself wrote state=done
\* to the status document: the loop sets done only when no step remains.
C18_DeliveryGating ==
    /\ AutoprInvoked
       => ( /\ AutoprGate
            /\ it.autopr_calls + (IF pc = "autopr" THEN 1 ELSE 0) = 1
            /\ (get_step(blueprint, it.status.current_step) # NoStep => rewrites >= 1) )
    /\ (IterationOver /\ it.branch \notin {"tests_ok", "autopr_failed"}) => it.autopr_calls = 0

C18_Witness ==
    /\ pc = "autopr"
    /\ rewrites = 0
    /\ it.test_attempts = 1
    /\ Persisted.state = "done"
    /\ get_step(blueprint, Persisted.current_step) = NoStep

\* C19 -- Delivery failure handling.  When run_autopr returns non-zero (124
\* for its timeout and 127 for a missing script included) and autopr is
\* marked required, the loop persists state=blocked, needs_human=true and
\* last_error_sig=autopr_failed, appends one outcome record tagged
\* autopr_failed and returns.  When autopr is not marked required, or it
\* returned 0, the status document and the log stay as they were: state
\* done, needs_human false, no autopr_failed record; the loop then returns
\* in run-once mode and sleeps otherwise.
C19_DeliveryFailure ==
    [][ (pc = "autopr" /\ pc' # "autopr")
        => IF it'.autopr_rc # 0 /\ cfg.autopr_required
           THEN /\ it'.autopr_rc \in {1, 124, 127}
                /\ Persisted'.state = "blocked"
                /\ Persisted'.needs_human
                /\ Persisted'.last_error_sig = "autopr_failed"
                /\ Len(log') = Len(log) + 1
                /\ SubSeq(log', 1, Len(log)) = log
                /\ HasTag(log'[Len(log')], "autopr_failed")
                /\ pc' = "returned"
           ELSE /\ Persisted'.state = "done"
                /\ ~Persisted'.needs_human
                /\ Persisted' = Persisted
                /\ log' = log
                /\ \A i \in (it.log_mark + 1)..Len(log') : ~HasTag(log'[i], "autopr_failed")
                /\ pc' = IF cfg.run_once THEN "returned" ELSE "sleep" ]_vars

\* a required delivery timed out (124) or its script was missing (127)
C19_Witness ==
    /\ pc = "returned"
    /\ it.branch = "autopr_failed"
    /\ it.autopr_rc \in {124, 127}
    /\ cfg.autopr_required
    /\ Persisted.state = "blocked"
    /\ HasTag(LastRecord, "autopr_failed")

\* the step the iteration selected has no boolean requires_test flag
Unflagged == it.step # NoStep /\ it.step.requires_test = "unset"

ErrorTags ==
    {"codex_timeout", "codex_timeout_progress", "codex_no_progress", "codex_failed",
     "sync_failed", "sync_target_missing", "max_attempts", "tests_failed", "autopr_failed"}

\* the tags every branch of which calls for a human
BlockingTags == ErrorTags \ {"codex_timeout_progress", "tests_failed"}

\* the iteration is over and its last outcome record carries the tag
Recorded(tag) ==
    /\ IterationOver
    /\ Undisturbed
    /\ OutcomeRecords >= 1
    /\ HasTag(LastRecord, tag)

\* C21 as stated -- Errors resolve to blocked.  Whenever the iteration
\* recorded one of the error tags, the state persisted at its end is blocked
\* with needs_human and a non-empty human_question.
C21_Original ==
    \A tag \in ErrorTags :
        Recorded(tag) => ( /\ Persisted.state = "blocked"
                           /\ Persisted.needs_human
                           /\ Persisted.human_question # "" )

\* C21 -- Errors resolve to blocked, amended.  An iteration that recorded
\* codex_timeout, codex_no_progress, codex_failed, sync_failed,
\* sync_target_missing, max_attempts or autopr_failed ends blocked with
\* needs_human, a non-empty human_question and the tag as last_error_sig,
\* and the loop has returned.  An iteration that recorded
\* codex_timeout_progress ends idle with needs_human false, an empty question
\* and last_error_sig codex_timeout_progress.  An iteration that recorded
\* tests_failed ends with last_test_ok false and a last_error_sig other than
\* tests_failed; its state is idle or done, and blocked only when the agent
\* wrote blocked to the status document itself.
C21_ErrorsResolve ==
    /\ \A tag \in BlockingTags :
          Recorded(tag) => ( /\ Persisted.state = "blocked"
                             /\ Persisted.needs_human
                             /\ Persisted.human_question # ""
                             /\ Persisted.last_error_sig = tag
                             /\ pc = "returned" )
    /\ Recorded("codex_timeout_progress")
       => ( /\ Persisted.state = "idle"
            /\ ~Persisted.needs_human
            /\ Persisted.human_question = ""
            /\ Persisted.last_error_sig = "codex_timeout_progress" )
    /\ Recorded("tests_failed")
       => ( /\ Persisted.state \in {"idle", "done", "blocked"}
            /\ (Persisted.state = "blocked" => rewrites >= 1)
            /\ ~Persisted.last_test_ok
            /\ Persisted.last_error_sig # "tests_failed" )

\* a required verification failed and the loop left the state idle
C21_Witness ==
    /\ Recorded("tests_failed")
    /\ step_requires_test(it.step)
    /\ Persisted.state = "idle"
    /\ ~Persisted.needs_human

C24_TruncationIdempotent ==
    pc = "retruncated" => it.twice = it.once

\* a text longer than the budget was cut, and cut again
C24_Witness ==
    /\ pc = "retruncated"
    /\ it.max_chars = MaxChars - 1
    /\ Len(it.text) > it.max_chars
    /\ it.once # it.text
    /\ Len(it.once) > it.max_chars

\* C25 -- Context character budget.  For every text and every max_chars > 0
\* the result of _truncate_chars, and so the digest that
\* build_second_brain_context returns, has at most max_chars characters.
C25_CharacterBudget ==
    (pc \in {"truncated", "retruncated"} /\ it.max_chars > 0) => Len(it.once) <= it.max_chars

\* C23 -- Namespace isolation.  With strict isolation, the context built for
\* the namespace of project A does not depend on what is stored under the
\* memory path of another project B: the tree with B's files and the tree
\* without them give the same context.
C23_NamespaceIsolation ==
    (pc = "built" /\ it.other # it.namespace.project_id) => it.context = it.context_without

\* C26 -- Checkpoints are write-once.  Over any sequence of iterations,
\* trigger resets included, the loop leaves the checkpoint files already
\* written as they are, and a new checkpoint never resolves to the name of
\* one already written.
C26_WriteOnce ==
    [][ /\ Len(checkpoints') >= Len(checkpoints)
        /\ SubSeq(checkpoints', 1, Len(checkpoints)) = checkpoints
        /\ \A i \in (Len(checkpoints) + 1)..Len(checkpoints') :
              \A j \in 1..Len(checkpoints) : checkpoints'[i] # checkpoints[j] ]_vars

\* C27 -- A checkpoint degrades instead of aborting.  When verification
\* returns on a step that allows a checkpoint and has passed its gate, and
\* git cannot produce a diff (the directory is no repository, or there is no
\* git executable), a checkpoint is still written and named in STATUS.json,
\* current_step advances and the outcome is recorded.
C27_CheckpointDegrades ==
    [][ ( /\ pc = "verify"
          /\ pc' # "verify"
          /\ cfg.git # "repository"
          /\ step_allows_checkpoint(it.step)
          /\ step_ok(it.step, it'.test_rc) )
        => ( /\ Len(checkpoints') = Len(checkpoints) + 1
             /\ Persisted'.checkpoint_id = checkpoints'[Len(checkpoints')]
             /\ Persisted'.current_step = it.status.current_step + 1
             /\ Len(log') = Len(log) + 1 ) ]_vars

\* C28 -- Missing sync target.  When the step the loop selects is a
\* host-sync step and no sync target is configured, the iteration persists
\* state blocked with needs_human and last_error_sig sync_target_missing,
\* appends one outcome record tagged sync_target_missing and returns: no
\* agent call, no sync script, no verification, no autopr, and current_step
\* is the step that was selected.
C28_MissingSyncTarget ==
    [][ ( /\ pc = "iter_start"
          /\ pc' # "iter_start"
          /\ it'.host_sync_step
          /\ ~cfg.sync_target )
        => ( /\ pc' = "returned"
             /\ Persisted'.state = "blocked"
             /\ Persisted'.needs_human
             /\ Persisted'.last_error_sig = "sync_target_missing"
             /\ Persisted'.current_step = it'.selected_step
             /\ Len(log') = it'.log_mark + 1
             /\ HasTag(log'[Len(log')], "sync_target_missing")
             /\ SubSeq(log', 1, Len(log)) = log
             /\ it'.primary_calls = 0
             /\ it'.fallback_calls = 0
             /\ ~it'.tests_ran
             /\ it'.autopr_calls = 0
             /\ attempts' = attempts
             /\ checkpoints' = checkpoints ) ]_vars

\* a session reached its host-sync step without a sync target, after the
\* step before it had passed
C28_Witness ==
    /\ pc = "returned"
    /\ it.branch = "sync_target_missing"
    /\ it.host_sync_step
    /\ it.selected_step = 2
    /\ ~cfg.sync_target
    /\ iters > 1
    /\ Persisted.state = "blocked"
    /\ Persisted.last_error_sig = "sync_target_missing"

\* the allow value of the last of the given calls, and deny without one
LastAllow(indices) ==
    IF indices = {} THEN FALSE
    ELSE it.calls[CHOOSE i \in indices : \A j \in indices : j <= i][2]

\* the set_approval calls made with exactly this action string
CallsNamed(action) == { i \in 1..Len(it.calls) : it.calls[i][1] = action }

\* the set_approval calls whose action is the same name once stripped
CallsFor(action) == { i \in 1..Len(it.calls) : strip(it.calls[i][1]) = strip(action) }

LastAction == it.calls[Len(it.calls)][1]

\* C29 as stated -- The approval store is last-writer-wins with default
\* deny.  After any sequence of set_approval calls, is_action_approved of
\* every action is the allow value of the most recent call for that action
\* and false without one, and a call for one action leaves the approval of
\* every other action as it was.
C29_Original ==
    /\ \A action \in ActionInputs :
          is_action_approved(it.file, action) = LastAllow(CallsNamed(action))
    /\ pc = "set" =>
          \A other \in ActionInputs \ {LastAction} :
              is_action_approved(it.file, other) = is_action_approved(it.before, other)

\* C29 -- The approval store is last-writer-wins with default deny, for
\* action names taken without the blanks around them.  is_action_approved
\* of an action is the allow value of the most recent set_approval for the
\* same stripped name, false without one, and false for a blank name
\* whatever was set; a set_approval leaves the approval of every action
\* with another stripped name as it was; is_action_approved answers just
\* that.
C29_LastWriterWins ==
    /\ \A action \in ActionInputs :
          is_action_approved(it.file, action) =
              IF strip(action) = <<>> THEN FALSE ELSE LastAllow(CallsFor(action))
    /\ pc = "set" =>
          \A other \in ActionInputs :
              strip(other) # strip(LastAction) =>
                  is_action_approved(it.file, other) = is_action_approved(it.before, other)
    /\ pc = "asked" =>
          it.answer = IF strip(it.asked) = <<>> THEN FALSE ELSE LastAllow(CallsFor(it.asked))

\* autopr approved, deploy approved under a padded name, autopr revoked,
\* and the question asked about autopr
C29_Witness ==
    /\ pc = "asked"
    /\ it.calls = << <<AUTOPR, TRUE>>, <<DEPLOY \o <<" ">>, TRUE>>, <<AUTOPR, FALSE>> >>
    /\ it.asked = AUTOPR
    /\ ~it.answer
    /\ is_action_approved(it.file, DEPLOY)

\* the record at index i hands back to where the one before it came from
ReversalAt(i) == i >= 2 /\ is_reversal(it.history[i - 1], it.history[i])

\* the number of consecutive direct reversals that end at index i
ReversalsAt(i) ==
    Cardinality({ k \in 1..(i - 1) : \A j \in (i - k + 1)..i : ReversalAt(j) })

PingPong == \E i \in 1..Len(it.history) : ReversalsAt(i) > it.ping_pong_limit

SeenDone == \E i \in 1..Len(it.history) : it.history[i].status = "done"

\* C30 -- Handoff convergence.  An empty history is not converged.  A
\* non-empty history is refused for ping-pong exactly when at some record
\* the count of consecutive direct reversals (agent names taken without the
\* blanks around them) exceeds ping_pong_limit; otherwise it is converged
\* when some record has status done, and otherwise converged exactly when
\* it has at most max_hops records.
C30_HandoffConvergence ==
    pc = "evaluated" =>
        /\ it.history = <<>> => ~it.result[1]
        /\ it.history # <<>> =>
              /\ (~it.result[1] /\ it.result[2] = "ping-pong limit exceeded") <=> PingPong
              /\ ~PingPong =>
                    it.result[1] = (SeenDone \/ Len(it.history) <= it.max_hops)

\* the history of test_handoff_convergence_detects_ping_pong with a done
\* record at its end: three reversals in a row against a limit of 1
C30_Witness ==
    /\ pc = "evaluated"
    /\ it.ping_pong_limit = 1
    /\ it.max_hops = MaxHistory
    /\ Len(it.history) = 4
    /\ ReversalsAt(4) = 3
    /\ it.history[4].status = "done"
    /\ it.result = <<FALSE, "ping-pong limit exceeded">>

\* C31 as stated -- The handoff template is valid.  For every from_agent,
\* to_agent and objective, the payload build_handoff_template returns passes
\* validate_handoff with an empty error list.
C31_Original == pc = "validated" => it.errors = <<>>

\* C31 -- The handoff template is valid unless it hands over to its own
\* sender.  The payload passes validate_handoff with an empty error list
\* exactly when the two agent names, stripped and with `requester` and
\* `main` for the blank ones, differ; when they are equal the only error is
\* that from_agent and to_agent must be different.
C31_TemplateValid ==
    pc = "validated" =>
        IF it.template.from_agent # it.template.to_agent
        THEN it.errors = <<>>
        ELSE it.errors = <<"from_agent and to_agent must be different">>

\* a padded sender, a blank receiver and an empty objective
C31_Witness ==
    /\ pc = "validated"
    /\ it.asked = << <<" ">> \o CODER, <<" ">>, <<>> >>
    /\ it.template.from_agent = CODER
    /\ it.template.to_agent = MAIN_ID
    /\ it.errors = <<>>

\* the three identifiers a status document holds
NamespaceOf(status) ==
    [tenant_id |-> status.tenant_id, agent_id |-> status.agent_id, project_id |-> status.project_id]

\* C32 -- The namespace is durable before the context is built.  When the
\* top of an iteration goes on to build the context and call the agent, the
\* identifiers persisted in STATUS.json are the namespace handed to the
\* assembler and the prompt, each is non-empty and normalized, and resolving
\* the persisted status again gives the same namespace; an iteration that
\* applied no trigger and found a resolved namespace leaves it as it was.
C32_NamespaceDurable ==
    [][ (pc = "iter_start" /\ pc' = "agent")
        => /\ NamespaceOf(Persisted') = it'.namespace
           /\ \A id \in {it'.namespace.tenant_id, it'.namespace.agent_id, it'.namespace.project_id} :
                 /\ id \notin {<<>>, NoStr}
                 /\ _normalize_identifier(id, NoStr) = id
           /\ resolve_runtime_namespace(Persisted', MEMORY_NAMESPACE_DEFAULTS) = it'.namespace
           /\ ( /\ ~it'.triggered
                /\ resolve_runtime_namespace(Persisted, MEMORY_NAMESPACE_DEFAULTS) = NamespaceOf(Persisted) )
              => NamespaceOf(Persisted') = NamespaceOf(Persisted) ]_vars

\* a status document with a raw project_id and no tenant: the agent is
\* called with the normalized namespace, which STATUS.json already holds
C32_Witness ==
    /\ pc = "agent"
    /\ trig.requests = 0
    /\ it.status_existed
    /\ ~it.triggered
    /\ it.start_state = "idle"
    /\ it.namespace = [tenant_id |-> DEFAULT_ID, agent_id |-> MAIN_ID, project_id |-> NORM_PROJECT]
    /\ NamespaceOf(Persisted) = it.namespace
    /\ Persisted.state = "running"

\* the branches that, in loop mode, sleep attempt_sleep and try again
RetryBranches == {"codex_timeout", "codex_no_progress", "codex_failed", "sync_failed"}

\* C33 as stated -- The state is never left running.  Wherever the loop
\* sleeps between iterations, or has returned after calling the agent, the
\* persisted state is idle, blocked or done.
C33_Original ==
    (pc = "sleep" \/ (pc = "returned" /\ it.primary_calls > 0))
        => Persisted.state \in {"idle", "blocked", "done"}

\* C33 -- The state is left running only across a retry sleep.  Where the
\* loop has returned after calling the agent, or sleeps after an iteration
\* that ran to its outcome record, the persisted state is idle, blocked or
\* done; where a loop-mode session sleeps before trying again (timeout
\* without progress, no progress, failed call), the state is still the
\* running written before the call, unless the agent or a trigger request
\* rewrote the document.
C33_RunningOnlyAcrossRetry ==
    /\ ( \/ pc = "returned" /\ it.primary_calls > 0
         \/ pc = "sleep" /\ it.branch \notin RetryBranches )
       => Persisted.state \in {"idle", "blocked", "done"}
    /\ (pc = "sleep" /\ it.branch \in RetryBranches /\ Undisturbed /\ rewrites = 0)
       => Persisted.state = "running"

\* a loop-mode session sleeps after a failed agent call
C33_Witness ==
    /\ pc = "sleep"
    /\ it.branch = "codex_failed"
    /\ it.primary_calls = 1
    /\ Undisturbed
    /\ rewrites = 0
    /\ Persisted.state = "running"

\* the ids of the steps of the blueprint
StepIds == { blueprint[i].id : i \in { j \in 1..Len(blueprint) : blueprint[j].isdict } }

\* the loop itself has just set state=done: no step was found for
\* current_step (line 1069), or the step passed and no next one exists
\* (line 1283)
LoopSetDone ==
    \/ IterationOver /\ it.branch = "no_more_steps"
    \/ /\ pc \in {"autopr", "returned", "sleep"}
       /\ it.advanced
       /\ it.status.state = "done"
       /\ get_step(blueprint, it.status.current_step) = NoStep

BudgetedLoop ==
    /\ ~cfg.run_once
    /\ cfg.max_attempts >= 1
    /\ StepIds = 1..Cardinality(StepIds)

\* loop() has returned, the agent never rewrote STATUS.json, and every
\* counted agent call was followed by a passed completion gate
EndedAllSucceeded ==
    /\ pc = "returned"
    /\ rewrites = 0
    /\ attempts = Cardinality(it.passed)

\* some step of the blueprint is a host-sync step that has no sync target
SyncTargetLacking ==
    \E i \in 1..Len(blueprint) :
        blueprint[i].isdict /\ sync_target_missing(is_host_sync_step(blueprint[i]), cfg.sync_target)

HumanFlagsAgree(status) ==
    /\ status.needs_human <=> status.state = "blocked"
    /\ status.needs_human => (status.human_question # "" /\ status.last_error_sig \in BlockingTags)

\* a step that writes STATUS.json and is not the agent's run
LoopOrTriggerWrite == pc \notin {"agent", "fallback"} /\ status_file' # status_file

\* C36 as stated -- needs_human tracks blocked.  After every status write
\* made by the loop or by a trigger application, needs_human is true exactly
\* when state is blocked, and then human_question is non-empty and
\* last_error_sig names the blocking cause.
C36_Original ==
    [][ LoopOrTriggerWrite => HumanFlagsAgree(Persisted') ]_vars

\* C36 -- needs_human tracks blocked when the loop decides the state.  After
\* every status write made by the loop or by a trigger application on a
\* document in which the flags agreed (the stored one, and the one the loop
\* reloaded after the agent's run), needs_human is true exactly when state
\* is blocked, and then human_question is non-empty and last_error_sig names
\* the blocking cause.
C36_NeedsHumanTracksBlocked ==
    [][ ( /\ LoopOrTriggerWrite
          /\ HumanFlagsAgree(Persisted)
          /\ pc \in {"verify", "autopr"} => HumanFlagsAgree(it.status) )
        => HumanFlagsAgree(Persisted') ]_vars

\* the budget check blocked a session whose agent never rewrote STATUS.json
C36_Witness ==
    /\ pc = "returned"
    /\ it.branch = "max_attempts"
    /\ rewrites = 0
    /\ Persisted.state = "blocked"
    /\ Persisted.needs_human
    /\ Persisted.human_question # ""
    /\ Persisted.last_error_sig = "max_attempts"

\* C37 -- One step per iteration.  At the end of an iteration that selected
\* a step, and during which trigger_supervisor.py did not run, the persisted
\* current_step is the selected value or that value plus 1, also when the
\* agent rewrote STATUS.json during its run; it is the value plus 1 only
\* when the selected step passed its completion gate.
C37_OneStepPerIteration ==
    (IterationOver /\ Undisturbed /\ it.selected_step > 0)
        => /\ Persisted.current_step \in {it.selected_step, it.selected_step + 1}
           /\ Persisted.current_step = it.selected_step + 1
                => (it.advanced /\ it.step.id = it.selected_step)

\* C38 -- A dropped duplicate has no effect.  When a run of
\* trigger_supervisor.py finds its request to be a duplicate inside the
\* window and drops it, STATUS.json and the pending TRIGGER.json are as they
\* were before the run.
C38_DroppedDuplicate ==
    [][ (trig'.requests = trig.requests + 1 /\ trig'.last.outcome = "skipped")
        => (status_file' = status_file /\ trigger_file' = trigger_file) ]_vars

\* C39 -- No trigger is lost to a race.  Whatever a run of
\* trigger_supervisor.py does while an iteration consumes the trigger, the
\* document the supervisor deletes is the document it has read, so that a
\* request that was written and not dropped as a duplicate is applied by
\* this or by a later iteration.
C39_NoTriggerLost == trig.unlinked = trig.consumed

\* the lines of a text that joins them with newlines
RECURSIVE SplitLines(_, _)
SplitLines(chars, line) ==
    IF chars = <<>> THEN (IF line = <<>> THEN <<>> ELSE <<line>>)
    ELSE IF Head(chars) = "\n" THEN <<line>> \o SplitLines(Tail(chars), <<>>)
    ELSE SplitLines(Tail(chars), Append(line, Head(chars)))

RECURSIVE IsSubsequence(_, _)
IsSubsequence(a, b) ==
    IF a = <<>> THEN TRUE
    ELSE IF b = <<>> THEN FALSE
    ELSE IF Head(a) = Head(b) THEN IsSubsequence(Tail(a), Tail(b))
    ELSE IsSubsequence(a, Tail(b))

\* the non-blank lines of a text, without their trailing blanks
NonBlankLines(text) ==
    SelectSeq([i \in 1..Len(text) |-> rstrip(text[i])], LAMBDA l : strip(l) # <<>>)

\* C40 -- Priority excerpt is a bounded subsequence.  For every text and
\* every max_lines > 0, _extract_priority_lines returns at most max_lines
\* lines, and they are a subsequence of the non-blank lines of the text, with
\* tagged lines and in the head/tail fallback, also for a text of fewer
\* than max_lines lines.
C40_BoundedSubsequence ==
    pc = "extracted"
        => \A call \in it.excerpts :
              call.max_lines > 0
                => /\ Len(SplitLines(call.excerpt, <<>>)) <= call.max_lines
                   /\ IsSubsequence(SplitLines(call.excerpt, <<>>), NonBlankLines(call.text))

====
